---- MODULE Spec2Model ----
(***************************************************************************)
(* guardian-cli: the host pool and ping resolver (src/config.rs,           *)
(* src/ollama.rs, src/commands/host.rs, src/commands/llm.rs) and the check *)
(* engine (src/checks/*.rs, src/commands/checks.rs).                       *)
(*                                                                         *)
(* An Option<T> is a sequence of length at most one: None is <<>> and      *)
(* Some(v) is <<v>>.  A &OllamaHost is the index of the host in            *)
(* config.ollama.hosts.  A line of a source file is the sequence of the    *)
(* lexical pieces the scanners look for.                                   *)
(***************************************************************************)
EXTENDS Integers, Sequences, FiniteSets, TLC

VARIABLES
    hosts,          \* config.ollama.hosts, in declaration order
    default_model,  \* config.ollama.default_model
    cmd,            \* the command that runs: select_host, ask, evaluate, ping_hosts
    pc,             \* the position inside that command
    args,           \* its arguments: required_model, model, host_name
    idx,            \* position of the host loop in the chained iterator
    probes,         \* the ping_host calls of the resolution so far, in call order
    listings,       \* the list_models calls so far, in call order
    selected,       \* the host resolution returned (0: none)
    outcome,        \* what the caller of the command receives ("" while it runs)
    reports,        \* how many times the no-suitable-host condition was reported
    generated,      \* the generate requests sent so far
    futures,        \* ping_hosts: one slot per input host of join_all
    completed,      \* ping_hosts: the slots in the order their probes completed
    ping_results,   \* ping_hosts: what join_all returned (<<>> before it returns)
    config,         \* the CheckConfig of the run
    only,           \* the --only filter of the run
    project,        \* the project directory the checks walk
    check_pc,       \* the position of the check run
    walk,           \* the entries of the directory walk still to visit
    results,        \* the Vec<CheckResult> the run has built so far
    ran,            \* the checks run_selected_checks has called, in call order
    output,         \* what check_results did: the format and the exit code
    previous,       \* the result sequence of the run before this one, if any
    content,        \* the lines of the file a scanner reads, as far as it has read
    scan,           \* the local variables of the scanner
    counted         \* the numbers of the lines count_functions has counted

hostVars == <<hosts, default_model, cmd, pc, args, idx, probes, listings,
              selected, outcome, reports, generated>>
pingVars == <<futures, completed, ping_results>>
checkVars == <<config, only, project, check_pc, walk, results, ran, output, previous>>
scanVars == <<content, scan, counted>>
vars == <<hostVars, pingVars, checkVars, scanVars>>

None == <<>>
Some(v) == <<v>>

(***************************************************************************)
(* Bounds of the model.                                                    *)
(***************************************************************************)
MaxHosts == 3
MaxLatency == 1

HostNames == <<"A", "B", "C", "D", "E">>
Models == {"m1", "m2"}

(***************************************************************************)
(* config.rs: the host pool and its derived views.                         *)
(***************************************************************************)
OllamaHost(i, e, f) == [name |-> HostNames[i], enabled |-> e, fallback |-> f]

Pools ==
    UNION {{[i \in 1..n |-> OllamaHost(i, ef[i][1], ef[i][2])] :
              ef \in [1..n -> BOOLEAN \X BOOLEAN]} : n \in 0..MaxHosts}

Indices(cfg) == [i \in 1..Len(cfg) |-> i]

primary_hosts_all(cfg) == SelectSeq(Indices(cfg), LAMBDA i : ~cfg[i].fallback)
primary_hosts(cfg) ==
    SelectSeq(Indices(cfg), LAMBDA i : cfg[i].enabled /\ ~cfg[i].fallback)

fallback_hosts(cfg) ==
    SelectSeq(Indices(cfg), LAMBDA i : cfg[i].enabled /\ cfg[i].fallback)

enabled_hosts(cfg) == primary_hosts(cfg) \o fallback_hosts(cfg)

(***************************************************************************)
(* ollama.rs: the probe of one host.  A probe is a GET with the client's   *)
(* timeout; the transport answers with a response (a status, after some    *)
(* latency) or fails (connection refused, timed out).                      *)
(***************************************************************************)
StatusOK == 200
Statuses == {StatusOK, 204, 500}
TransportErrors == {"connection refused", "operation timed out"}

Responses ==
    [kind : {"response"}, status : Statuses, latency : {MaxLatency}]
    \cup [kind : {"failure"}, error : TransportErrors]

\* format!("HTTP status: {status}")
HttpStatusError(status) ==
    CASE status = 200 -> "HTTP status: 200 OK"
      [] status = 204 -> "HTTP status: 204 No Content"
      [] status = 500 -> "HTTP status: 500 Internal Server Error"

ping_host_lenient(host, resp) ==
    IF resp.kind = "response"
    THEN [host |-> host, reachable |-> TRUE,
          latency_ms |-> Some(resp.latency), error |-> None]
    ELSE [host |-> host, reachable |-> FALSE,
          latency_ms |-> None, error |-> Some(resp.error)]
ping_host(host, resp) ==
    IF resp.kind = "response" /\ resp.status = StatusOK
    THEN [host |-> host, reachable |-> TRUE,
          latency_ms |-> Some(resp.latency), error |-> None]
    ELSE IF resp.kind = "response"
    THEN [host |-> host, reachable |-> FALSE,
          latency_ms |-> Some(resp.latency),
          error |-> Some(HttpStatusError(resp.status))]
    ELSE [host |-> host, reachable |-> FALSE,
          latency_ms |-> None, error |-> Some(resp.error)]

\* list_models: Ok(models), the names in the order the host lists them, or Err
ModelLists == {<<>>, <<"m1">>, <<"m2">>, <<"m1", "m2">>, <<"m2", "m1">>}
ListResults ==
    [ok : {TRUE}, models : ModelLists]
    \cup [ok : {FALSE}, error : {"Failed to connect", "Failed to parse response"}]

Range(s) == {s[i] : i \in 1..Len(s)}

(***************************************************************************)
(* commands/host.rs: select_host and try_host.                             *)
(***************************************************************************)
\* config.primary_hosts().iter().chain(config.fallback_hosts().iter())
ResolutionOrder_fallback_first(cfg) == fallback_hosts(cfg) \o primary_hosts(cfg)
ResolutionOrder(cfg) == primary_hosts(cfg) \o fallback_hosts(cfg)

\* Ok(models) if models.iter().any(|m| m.name == model) => Some(host), _ => None
model_listed_any_ok(listing, model) == listing.ok
model_listed_or_err(listing, model) == listing.ok => model \in Range(listing.models)
model_listed(listing, model) == listing.ok /\ model \in Range(listing.models)

NoArgs == [required_model |-> None, model |-> None, host_name |-> None]

SelectHost ==
    /\ pc = "idle"
    /\ \E m \in {None} \cup {Some(x) : x \in Models} :
          args' = [NoArgs EXCEPT !.required_model = m]
    /\ cmd' = "select_host"
    /\ pc' = "try_host"
    /\ idx' = 1
    /\ UNCHANGED <<hosts, default_model, probes, listings, selected, outcome,
                   reports, generated, pingVars, checkVars, scanVars>>

\* try_host, up to the answer of the probe
TryHostPing ==
    /\ pc = "try_host"
    /\ idx <= Len(ResolutionOrder(hosts))
    /\ \E resp \in Responses :
          LET h == ResolutionOrder(hosts)[idx]
              r == ping_host(hosts[h], resp)
          IN  /\ probes' = Append(probes, [host |-> h, reachable |-> r.reachable])
              /\ IF ~r.reachable
                 THEN \* return None: the loop goes on
                      /\ idx' = idx + 1
                      /\ UNCHANGED <<pc, selected, outcome>>
                 ELSE IF args.required_model = None
                 THEN \* None => Some(host): output::selected_host
                      /\ selected' = h
                      /\ outcome' = "selected"
                      /\ pc' = "done"
                      /\ UNCHANGED idx
                 ELSE /\ pc' = "try_host_list"
                      /\ UNCHANGED <<idx, selected, outcome>>
    /\ UNCHANGED <<hosts, default_model, cmd, args, listings, reports,
                   generated, pingVars, checkVars, scanVars>>

\* try_host, from the answer of list_models
TryHostList ==
    /\ pc = "try_host_list"
    /\ \E l \in ListResults :
          LET h == ResolutionOrder(hosts)[idx]
          IN  /\ listings' = Append(listings, [host |-> h, result |-> l])
              /\ IF model_listed(l, args.required_model[1])
                 THEN /\ selected' = h
                      /\ outcome' = "selected"
                      /\ pc' = "done"
                      /\ UNCHANGED idx
                 ELSE /\ idx' = idx + 1
                      /\ pc' = "try_host"
                      /\ UNCHANGED <<selected, outcome>>
    /\ UNCHANGED <<hosts, default_model, cmd, args, probes, reports,
                   generated, pingVars, checkVars, scanVars>>

\* the loop is over: "No suitable hosts available", std::process::exit(1)
SelectHostExhausted ==
    /\ pc = "try_host"
    /\ idx > Len(ResolutionOrder(hosts))
    /\ outcome' = "No suitable hosts available"
    /\ reports' = reports + 1
    /\ pc' = "done"
    /\ UNCHANGED <<hosts, default_model, cmd, args, idx, probes, listings,
                   selected, generated, pingVars, checkVars, scanVars>>

(***************************************************************************)
(* commands/llm.rs: ask, evaluate, resolve_host, resolve_model.            *)
(***************************************************************************)
\* config.enabled_hosts().into_iter().find(|h| h.name == name)
find_host(cfg, name) ==
    LET en == enabled_hosts(cfg)
        hit == {k \in 1..Len(en) : cfg[en[k]].name = name}
    IN  IF hit = {} THEN None
        ELSE Some(en[CHOOSE k \in hit : \A j \in hit : k <= j])

HostNameArgs == {None} \cup {Some(HostNames[i]) : i \in 1..(MaxHosts + 1)}
ModelArgs == {None} \cup {Some(x) : x \in Models}

\* ask and evaluate, up to the match of resolve_host
StartFlow(name) ==
    /\ pc = "idle"
    /\ cmd' = name
    /\ \E m \in ModelArgs, hn \in HostNameArgs :
          /\ args' = [NoArgs EXCEPT !.model = m, !.host_name = hn]
          /\ IF hn = None
             THEN /\ pc' = "resolve_host"
                  /\ idx' = 1
                  /\ UNCHANGED <<selected, outcome>>
             ELSE LET found == find_host(hosts, hn[1])
                  IN  /\ UNCHANGED idx
                      /\ IF found = None
                         THEN /\ outcome' = "Host not found or disabled"
                              /\ pc' = "done"
                              /\ UNCHANGED selected
                         ELSE /\ selected' = found[1]
                              /\ pc' = "resolve_model"
                              /\ UNCHANGED outcome
    /\ UNCHANGED <<hosts, default_model, probes, listings, reports, generated,
                   pingVars, checkVars, scanVars>>

Ask == StartFlow("ask")

\* evaluate returns before any host is resolved when no check failed
Evaluate == StartFlow("evaluate")

EvaluateNoFailures ==
    /\ pc = "idle"
    /\ cmd' = "evaluate"
    /\ outcome' = "All checks passed. No LLM evaluation needed."
    /\ pc' = "done"
    /\ UNCHANGED <<hosts, default_model, args, idx, probes, listings, selected,
                   reports, generated, pingVars, checkVars, scanVars>>

ResolveHostPing_retrying ==
    /\ pc = "resolve_host"
    /\ idx <= Len(ResolutionOrder(hosts))
    /\ \E resp \in Responses :
          LET h == ResolutionOrder(hosts)[idx]
              r == ping_host(hosts[h], resp)
          IN  /\ probes' = Append(probes, [host |-> h, reachable |-> r.reachable])
              /\ IF r.reachable
                 THEN /\ selected' = h
                      /\ pc' = "resolve_model"
                 ELSE UNCHANGED <<pc, selected>>
    /\ UNCHANGED <<hosts, default_model, cmd, args, idx, listings, outcome, reports,
                   generated, pingVars, checkVars, scanVars>>

\* resolve_host, host_name = None: one turn of the loop
ResolveHostPing ==
    /\ pc = "resolve_host"
    /\ idx <= Len(ResolutionOrder(hosts))
    /\ \E resp \in Responses :
          LET h == ResolutionOrder(hosts)[idx]
              r == ping_host(hosts[h], resp)
          IN  /\ probes' = Append(probes, [host |-> h, reachable |-> r.reachable])
              /\ IF r.reachable
                 THEN /\ selected' = h
                      /\ pc' = "resolve_model"
                      /\ UNCHANGED idx
                 ELSE /\ idx' = idx + 1
                      /\ UNCHANGED <<pc, selected>>
    /\ UNCHANGED <<hosts, default_model, cmd, args, listings, outcome, reports,
                   generated, pingVars, checkVars, scanVars>>

\* anyhow::bail!("No reachable hosts found")
ResolveHostExhausted ==
    /\ pc = "resolve_host"
    /\ idx > Len(ResolutionOrder(hosts))
    /\ outcome' = "No reachable hosts found"
    /\ reports' = reports + 1
    /\ pc' = "done"
    /\ UNCHANGED <<hosts, default_model, cmd, args, idx, probes, listings,
                   selected, generated, pingVars, checkVars, scanVars>>

\* resolve_model, then client.generate(host, &model_name, prompt)
ResolveModelGiven ==
    /\ pc = "resolve_model"
    /\ args.model # None \/ default_model # None
    /\ generated' = Append(generated,
          [host |-> selected,
           model |-> IF args.model # None THEN args.model[1] ELSE default_model[1]])
    /\ pc' = "generate"
    /\ UNCHANGED <<hosts, default_model, cmd, args, idx, probes, listings,
                   selected, outcome, reports, pingVars, checkVars, scanVars>>

ResolveModelListed ==
    /\ pc = "resolve_model"
    /\ args.model = None /\ default_model = None
    /\ \E l \in ListResults :
          /\ listings' = Append(listings, [host |-> selected, result |-> l])
          /\ IF ~l.ok
             THEN /\ outcome' = l.error
                  /\ pc' = "done"
                  /\ UNCHANGED generated
             ELSE IF l.models = <<>>
             THEN /\ outcome' = "No models available on host"
                  /\ pc' = "done"
                  /\ UNCHANGED generated
             ELSE /\ generated' = Append(generated,
                        [host |-> selected, model |-> Head(l.models)])
                  /\ pc' = "generate"
                  /\ UNCHANGED outcome
    /\ UNCHANGED <<hosts, default_model, cmd, args, idx, probes, selected,
                   reports, pingVars, checkVars, scanVars>>

\* the answer of the generate request
GenerateAnswer ==
    /\ pc = "generate"
    /\ \E ok \in BOOLEAN :
          outcome' = IF ok THEN "response" ELSE "generate failed"
    /\ pc' = "done"
    /\ UNCHANGED <<hosts, default_model, cmd, args, idx, probes, listings,
                   selected, reports, generated, pingVars, checkVars, scanVars>>

(***************************************************************************)
(* commands/host.rs ping_hosts and ollama.rs OllamaClient::ping_hosts:     *)
(* one future per input host, joined by futures::future::join_all.         *)
(***************************************************************************)
\* hosts.iter().map(|host| self.ping_host(host)).collect(), polled by join_all:
\* the first poll of the join polls every future, which sends its request
join_all_poll(hs) ==
    [k \in 1..Len(hs) |->
        [host |-> hs[k], state |-> "inflight", resp |-> None, result |-> None]]

\* the output of join_all: the outputs of the futures, in the order of the input
join_all_output_completion_order(fs, comp) ==
    [k \in 1..Len(comp) |-> fs[comp[k]].result[1]]
join_all_output(fs, comp) == [k \in 1..Len(fs) |-> fs[k].result[1]]

PingHosts ==
    /\ pc = "idle"
    /\ cmd' = "ping_hosts"
    /\ IF enabled_hosts(hosts) = <<>>
       THEN \* output::no_hosts_error
            /\ outcome' = "No hosts configured"
            /\ pc' = "done"
            /\ UNCHANGED futures
       ELSE /\ futures' = join_all_poll(enabled_hosts(hosts))
            /\ pc' = "join_all"
            /\ UNCHANGED outcome
    /\ UNCHANGED <<hosts, default_model, args, idx, probes, listings, selected,
                   reports, generated, completed, ping_results, checkVars, scanVars>>

\* the probe of slot k ends: a response arrives, or the transport fails or
\* times out
ProbeCompletes ==
    /\ pc = "join_all"
    /\ \E k \in 1..Len(futures), resp \in Responses :
          /\ futures[k].state = "inflight"
          /\ futures' = [futures EXCEPT ![k] =
                            [host |-> futures[k].host, state |-> "done",
                             resp |-> Some(resp),
                             result |-> Some(ping_host(hosts[futures[k].host], resp))]]
          /\ completed' = Append(completed, k)
    /\ UNCHANGED <<hostVars, ping_results, checkVars, scanVars>>

\* every future is done: join_all returns, output::ping_results prints
JoinAllReturns ==
    /\ pc = "join_all"
    /\ \A k \in 1..Len(futures) : futures[k].state = "done"
    /\ ping_results' = join_all_output(futures, completed)
    /\ outcome' = "pinged"
    /\ pc' = "done"
    /\ UNCHANGED <<hosts, default_model, cmd, args, idx, probes, listings,
                   selected, reports, generated, futures, completed, checkVars,
                   scanVars>>

(***************************************************************************)
(* The host commands: one command per run, on a pool the configuration     *)
(* gives.                                                                  *)
(***************************************************************************)
\* no check runs
ChecksIdle ==
    /\ config = <<>>
    /\ only = None
    /\ project = <<>>
    /\ check_pc = "idle"
    /\ walk = <<>>
    /\ ran = <<>>
    /\ output = <<>>
    /\ previous = None
    /\ results = <<>>
    /\ content = <<>>
    /\ scan = <<>>
    /\ counted = {}

CommandIdle ==
    /\ cmd = "none"
    /\ pc = "idle"
    /\ args = NoArgs
    /\ idx = 0
    /\ probes = <<>>
    /\ listings = <<>>
    /\ selected = 0
    /\ outcome = ""
    /\ reports = 0
    /\ generated = <<>>
    /\ futures = <<>>
    /\ completed = <<>>
    /\ ping_results = <<>>

HostsIdle ==
    /\ ChecksIdle
    /\ CommandIdle

InitResolve ==
    /\ hosts \in Pools
    /\ default_model \in ModelArgs
    /\ HostsIdle

NextResolve ==
    \/ SelectHost
    \/ TryHostPing
    \/ TryHostList
    \/ SelectHostExhausted
    \/ Ask
    \/ Evaluate
    \/ EvaluateNoFailures
    \/ ResolveHostPing
    \/ ResolveHostExhausted
    \/ ResolveModelGiven
    \/ ResolveModelListed
    \/ GenerateAnswer

SpecResolve == InitResolve /\ [][NextResolve]_vars

InitPing ==
    /\ hosts \in Pools
    /\ default_model = None
    /\ HostsIdle

NextPing ==
    \/ PingHosts
    \/ ProbeCompletes
    \/ JoinAllReturns

SpecPing == InitPing /\ [][NextPing]_vars

(***************************************************************************)
(* Host resolution: what the claims speak of.                              *)
(***************************************************************************)
Enabled == {i \in 1..Len(hosts) : hosts[i].enabled}
Primaries == {i \in Enabled : ~hosts[i].fallback}
Fallbacks == {i \in Enabled : hosts[i].fallback}

\* g comes before h in the priority order: primaries in declaration order,
\* then fallbacks in declaration order
Before(g, h) ==
    \/ g \in Primaries /\ h \in Fallbacks
    \/ hosts[g].fallback = hosts[h].fallback /\ g < h

\* resolution without an explicit host name has begun: select_host, and
\* resolve_host with host_name = None (idx is 0 until the host loop starts)
Automatic ==
    /\ cmd \in {"select_host", "ask", "evaluate"}
    /\ args.host_name = None
    /\ idx >= 1

ResolutionOver == pc \notin {"idle", "try_host", "try_host_list", "resolve_host"}

Probed(h) == \E k \in 1..Len(probes) : probes[k].host = h
AnsweredReachable(h) ==
    \E k \in 1..Len(probes) : probes[k].host = h /\ probes[k].reachable
ListedModel(h, m) ==
    \E k \in 1..Len(listings) :
        /\ listings[k].host = h
        /\ listings[k].result.ok
        /\ m \in Range(listings[k].result.models)

\* h qualifies: it answered its probe as reachable and, when select_host was
\* given a required model, its model list holds that model
Qualifies(h) ==
    /\ AnsweredReachable(h)
    /\ (cmd = "select_host" /\ args.required_model # None)
          => ListedModel(h, args.required_model[1])

\* C1: automatic resolution probes the enabled primaries in declaration order,
\* then the enabled fallbacks in declaration order, and returns the first host
\* of that order that qualifies: every host before the returned one was probed
\* and did not qualify, so no fallback is returned while a primary qualifies;
\* a disabled host is never returned (also not by name).  With A(primary,
\* down), B(primary, up), C(fallback, up) and no required model the result is B.
C1_ResolutionInPriorityOrder ==
    /\ \A k \in 1..Len(probes) :
          /\ probes[k].host \in Enabled
          /\ \A g \in Enabled :
                Before(g, probes[k].host) <=>
                    \E j \in 1..(k - 1) : probes[j].host = g
    /\ selected # 0 => selected \in Enabled
    /\ (Automatic /\ selected # 0) =>
          /\ Qualifies(selected)
          /\ probes[Len(probes)].host = selected
          /\ \A g \in Enabled : Before(g, selected) => Probed(g) /\ ~Qualifies(g)
          /\ selected \in Fallbacks => \A g \in Primaries : Probed(g) /\ ~Qualifies(g)
    /\ ( /\ Automatic /\ ResolutionOver
         /\ args.required_model = None
         /\ Len(hosts) = 3 /\ Primaries = {1, 2} /\ Fallbacks = {3}
         /\ Len(probes) >= 2 /\ ~probes[1].reachable /\ probes[2].reachable )
       => selected = 2

C1_Witness ==
    /\ cmd = "select_host" /\ pc = "done"
    /\ args.required_model = None
    /\ Len(hosts) = 3 /\ Primaries = {1, 2} /\ Fallbacks = {3}
    /\ probes = <<[host |-> 1, reachable |-> FALSE], [host |-> 2, reachable |-> TRUE]>>
    /\ selected = 2

\* C2: when select_host is given a required model and returns a host, that
\* host answered its probe as reachable and its model list holds the model;
\* every host before it in priority order was probed and skipped (it was
\* unreachable, its listing failed, or it lacks the model).  With A(primary,
\* down), B(primary, up, lacks the model), C(fallback, up, has it) the result
\* is C, after both primaries were tried.
C2_SelectedHostHasModel ==
    /\ (cmd = "select_host" /\ args.required_model # None /\ selected # 0) =>
          /\ AnsweredReachable(selected)
          /\ ListedModel(selected, args.required_model[1])
          /\ \A g \in Enabled : Before(g, selected) =>
                /\ Probed(g)
                /\ ~(AnsweredReachable(g) /\ ListedModel(g, args.required_model[1]))
    /\ \A k \in 1..Len(listings) :
          cmd = "select_host" => AnsweredReachable(listings[k].host)
    /\ ( /\ cmd = "select_host" /\ pc = "done"
         /\ args.required_model = Some("m1")
         /\ Len(hosts) = 3 /\ Primaries = {1, 2} /\ Fallbacks = {3}
         /\ Len(probes) = 3 /\ ~probes[1].reachable
         /\ probes[2].reachable /\ probes[3].reachable
         /\ Len(listings) = 2
         /\ ~ListedModel(2, "m1") /\ ListedModel(3, "m1") )
       => selected = 3

C2_Witness ==
    /\ cmd = "select_host" /\ pc = "done"
    /\ args.required_model = Some("m1")
    /\ Len(hosts) = 3 /\ Primaries = {1, 2} /\ Fallbacks = {3}
    /\ probes = <<[host |-> 1, reachable |-> FALSE], [host |-> 2, reachable |-> TRUE],
                  [host |-> 3, reachable |-> TRUE]>>
    /\ listings = <<[host |-> 2, result |-> [ok |-> TRUE, models |-> <<"m2">>]],
                    [host |-> 3, result |-> [ok |-> TRUE, models |-> <<"m2", "m1">>]]>>
    /\ selected = 3

NoSuitableHost == {"No suitable hosts available", "No reachable hosts found"}

ProbeErrors ==
    TransportErrors \cup {HttpStatusError(st) : st \in Statuses}
    \cup {"Failed to connect", "Failed to parse response"}

\* C3: when automatic resolution is over and no enabled host qualified, it
\* ended in the no-suitable-host outcome and returned no host; that outcome
\* is reported once per call (never while the loop still runs, never once
\* per host); what the caller receives from resolution is never the error
\* of a probe or of a model listing.
C3_NoSuitableHostOutcome ==
    /\ reports <= 1
    /\ reports = 1 <=> outcome \in NoSuitableHost
    /\ ~ResolutionOver => outcome = ""
    /\ (Automatic /\ ResolutionOver /\ \A h \in Enabled : ~Qualifies(h)) =>
          /\ selected = 0
          /\ outcome \in NoSuitableHost
          /\ \A h \in Enabled : Cardinality({k \in 1..Len(probes) : probes[k].host = h}) = 1
    /\ cmd = "select_host" => outcome \notin ProbeErrors
    /\ (Automatic /\ selected = 0) => outcome \notin ProbeErrors

C3_Witness ==
    /\ cmd = "select_host" /\ pc = "done"
    /\ args.required_model # None
    /\ outcome = "No suitable hosts available"
    /\ Len(probes) = 3
    /\ ~probes[1].reachable
    /\ \E k \in 1..Len(listings) : ~listings[k].result.ok
    /\ \E k \in 1..Len(listings) : listings[k].result.ok

\* C6: primary_hosts and fallback_hosts are disjoint, each keeps the
\* declaration order, a disabled host is in neither, and enabled_hosts is
\* primary_hosts followed by fallback_hosts: every enabled host once, every
\* primary before every fallback.
Increasing(s) == \A j, k \in 1..Len(s) : j < k => s[j] < s[k]

C6_HostViews ==
    LET P == primary_hosts(hosts)
        F == fallback_hosts(hosts)
        E == enabled_hosts(hosts)
    IN  /\ Range(P) \cap Range(F) = {}
        /\ Increasing(P) /\ Increasing(F)
        /\ Range(P) = {i \in 1..Len(hosts) : hosts[i].enabled /\ ~hosts[i].fallback}
        /\ Range(F) = {i \in 1..Len(hosts) : hosts[i].enabled /\ hosts[i].fallback}
        /\ \A i \in 1..Len(hosts) :
              ~hosts[i].enabled => i \notin Range(P) \cup Range(F) \cup Range(E)
        /\ E = P \o F
        /\ \A i \in 1..Len(hosts) :
              hosts[i].enabled => Cardinality({k \in 1..Len(E) : E[k] = i}) = 1
        /\ \A j, k \in 1..Len(E) :
              (~hosts[E[j]].fallback /\ hosts[E[k]].fallback) => j < k

\* a fallback declared before a primary, a disabled host between them, and a
\* command that used the views
C6_Witness ==
    /\ Len(hosts) = 3
    /\ hosts[1].enabled /\ hosts[1].fallback
    /\ ~hosts[2].enabled
    /\ hosts[3].enabled /\ ~hosts[3].fallback
    /\ enabled_hosts(hosts) = <<3, 1>>
    /\ pc = "done" /\ Len(probes) = 2

(***************************************************************************)
(* Probing: what the claims speak of.                                      *)
(***************************************************************************)
Done == {k \in 1..Len(futures) : futures[k].state = "done"}

SuccessShape(r) == r.reachable /\ Len(r.latency_ms) = 1 /\ r.error = None
StatusShape(r, st) ==
    ~r.reachable /\ Len(r.latency_ms) = 1 /\ r.error = Some(HttpStatusError(st))
FailureShape(r, e) == ~r.reachable /\ r.latency_ms = None /\ r.error = Some(e)

\* C4: every PingResult has one of three shapes: reachable with a latency and
\* no error for a 200 OK response; unreachable with a latency and an error
\* carrying the status for any other response; unreachable with no latency
\* and the failure description for a transport failure or timeout.  So
\* reachable holds iff error is absent, reachable implies a latency, and the
\* result carries the probed host.
C4_PingResultShapes ==
    \A k \in Done :
        LET r == futures[k].result[1]
            resp == futures[k].resp[1]
        IN  /\ r.host = hosts[futures[k].host]
            /\ r.reachable <=> r.error = None
            /\ r.reachable => r.latency_ms # None
            /\ (resp.kind = "response" /\ resp.status = 200) =>
                  SuccessShape(r) /\ r.latency_ms = Some(resp.latency)
            /\ (resp.kind = "response" /\ resp.status # 200) =>
                  StatusShape(r, resp.status) /\ r.latency_ms = Some(resp.latency)
            /\ resp.kind = "failure" => FailureShape(r, resp.error)

C4_Witness ==
    /\ pc = "done" /\ Len(ping_results) = 3
    /\ SuccessShape(ping_results[1])
    /\ StatusShape(ping_results[2], 500)
    /\ FailureShape(ping_results[3], "operation timed out")

\* C5: bulk probing of N hosts has all N probes in flight before any has
\* completed (none waits for another), returns only when all have completed,
\* and returns N results, result i being the result of the probe of input
\* host i, which depends on the answer to that probe alone: whatever the
\* order of the completions and whichever probes fail.
C5_BulkProbing ==
    LET input == enabled_hosts(hosts)
    IN  /\ pc = "join_all" =>
              /\ Len(futures) = Len(input)
              /\ \A k \in 1..Len(futures) :
                    futures[k].host = input[k] /\ futures[k].state \in {"inflight", "done"}
              /\ ping_results = <<>>
        /\ outcome = "pinged" =>
              /\ Done = 1..Len(futures)
              /\ Len(ping_results) = Len(input)
              /\ \A i \in 1..Len(input) :
                    /\ ping_results[i].host = hosts[input[i]]
                    /\ ping_results[i] = ping_host(hosts[input[i]], futures[i].resp[1])

\* three probes that completed in the order 3, 1, 2, the first one failed
C5_Witness ==
    /\ outcome = "pinged"
    /\ completed = <<3, 1, 2>>
    /\ ~ping_results[1].reachable /\ ping_results[2].reachable
    /\ ping_results[3].reachable

(***************************************************************************)
(* checks/mod.rs: the result of a check.  A message or fix text is the     *)
(* format string with the values it interpolates.                          *)
(***************************************************************************)
Severities == {"Info", "Warning", "Error"}

CheckResult_pass_as_warning(check_name, message) ==
    [check_name |-> check_name, passed |-> TRUE, severity |-> "Warning",
     message |-> message, file |-> None, line |-> None, fix |-> None]
CheckResult_pass(check_name, message) ==
    [check_name |-> check_name, passed |-> TRUE, severity |-> "Info",
     message |-> message, file |-> None, line |-> None, fix |-> None]

CheckResult_fail(check_name, severity, message) ==
    [check_name |-> check_name, passed |-> FALSE, severity |-> severity,
     message |-> message, file |-> None, line |-> None, fix |-> None]

with_file(r, file) == [r EXCEPT !.file = Some(file)]
with_line(r, line) == [r EXCEPT !.line = Some(line)]
with_fix(r, fix) == [r EXCEPT !.fix = Some(fix)]

\* impl Default for CheckConfig
CheckConfig_default ==
    [max_file_loc |-> 500, warn_file_loc |-> 350, max_functions_per_module |-> 7,
     max_modules_per_crate |-> 4, required_edition |-> "2024"]

(***************************************************************************)
(* The project tree.  A directory is the sequence of its entries in the    *)
(* order read_dir yields them; an entry is a file (its path, and what      *)
(* read_to_string returns: the lines, or an error) or a directory (its     *)
(* path, and what read_dir returns).  A path is the directories above the  *)
(* entry, the stem of its file name and its extension.                     *)
(***************************************************************************)
Path(dir, stem, ext) == [dir |-> dir, stem |-> stem, ext |-> ext]
Names == <<"a", "b", "c", "d", "e">>
File(name, lines) ==
    [kind |-> "file", name |-> name, read |-> [ok |-> TRUE, lines |-> lines]]
UnreadableFile(name) ==
    [kind |-> "file", name |-> name, read |-> [ok |-> FALSE, error |-> "Permission denied"]]
Dir(name, entries) ==
    [kind |-> "dir", name |-> name, read |-> [ok |-> TRUE, entries |-> entries]]
UnreadableDir(name) ==
    [kind |-> "dir", name |-> name, read |-> [ok |-> FALSE, error |-> "Permission denied"]]

\* path.extension().is_some_and(|e| e == "rs")
IsRs(name) == name.ext = "rs"

(***************************************************************************)
(* checks/loc_limits.rs                                                    *)
(***************************************************************************)
loc_limits_check_file_ge(f, max_loc, warn_loc) ==
    IF ~f.read.ok
    THEN with_file(CheckResult_fail("loc-limits", "Warning",
                       [fmt |-> "Read error: {e}", e |-> f.read.error]), f.name)
    ELSE LET loc == Len(f.read.lines)
         IN  IF loc >= max_loc
             THEN with_fix(with_file(CheckResult_fail("loc-limits", "Error",
                      [fmt |-> "{file_name}: {loc} lines exceeds max {max_loc}",
                       file_name |-> f.name, loc |-> loc, max_loc |-> max_loc]), f.name),
                      [fmt |-> "Split {file_name} into smaller modules (each under {max_loc} lines)",
                       file_name |-> f.name, max_loc |-> max_loc])
             ELSE IF loc >= warn_loc
             THEN with_fix(with_file(CheckResult_fail("loc-limits", "Warning",
                      [fmt |-> "{file_name}: {loc} lines exceeds warning threshold {warn_loc}",
                       file_name |-> f.name, loc |-> loc, warn_loc |-> warn_loc]), f.name),
                      [fmt |-> "Consider splitting into smaller modules"])
             ELSE with_file(CheckResult_pass("loc-limits",
                      [fmt |-> "{file_name}: {loc} lines (OK)",
                       file_name |-> f.name, loc |-> loc]), f.name)
loc_limits_check_file(f, max_loc, warn_loc) ==
    IF ~f.read.ok
    THEN with_file(CheckResult_fail("loc-limits", "Warning",
                       [fmt |-> "Read error: {e}", e |-> f.read.error]), f.name)
    ELSE LET loc == Len(f.read.lines)
         IN  IF loc > max_loc
             THEN with_fix(with_file(CheckResult_fail("loc-limits", "Error",
                      [fmt |-> "{file_name}: {loc} lines exceeds max {max_loc}",
                       file_name |-> f.name, loc |-> loc, max_loc |-> max_loc]), f.name),
                      [fmt |-> "Split {file_name} into smaller modules (each under {max_loc} lines)",
                       file_name |-> f.name, max_loc |-> max_loc])
             ELSE IF loc > warn_loc
             THEN with_fix(with_file(CheckResult_fail("loc-limits", "Warning",
                      [fmt |-> "{file_name}: {loc} lines exceeds warning threshold {warn_loc}",
                       file_name |-> f.name, loc |-> loc, warn_loc |-> warn_loc]), f.name),
                      [fmt |-> "Consider splitting into smaller modules"])
             ELSE with_file(CheckResult_pass("loc-limits",
                      [fmt |-> "{file_name}: {loc} lines (OK)",
                       file_name |-> f.name, loc |-> loc]), f.name)

RECURSIVE loc_limits_check_directory(_, _, _)
loc_limits_check_directory(dir, max_loc, warn_loc) ==
    IF ~dir.read.ok THEN <<>>
    ELSE LET entries == dir.read.entries
             visit[k \in 0..Len(entries)] ==
                 IF k = 0 THEN <<>>
                 ELSE LET path == entries[k]
                      IN  visit[k - 1] \o
                          ( IF path.kind = "dir"
                            THEN loc_limits_check_directory(path, max_loc, warn_loc)
                            ELSE IF IsRs(path.name)
                            THEN <<loc_limits_check_file(path, max_loc, warn_loc)>>
                            ELSE <<>> )
         IN  visit[Len(entries)]

\* project.src is None when project_dir/src does not exist
loc_limits_check(proj, max_loc, warn_loc) ==
    IF proj.src = None THEN <<>>
    ELSE loc_limits_check_directory(proj.src[1], max_loc, warn_loc)

(***************************************************************************)
(* The loc-limits check applied to a project: thresholds as main.rs takes  *)
(* them from --max-loc and --warn-loc (any two usize values), a src tree   *)
(* of readable and unreadable files and directories.                       *)
(***************************************************************************)
MaxLoc == 3
MaxFiles == 2

Blank(n) == [k \in 1..n |-> <<>>]

LocFiles(dir, stem) ==
    {File(Path(dir, stem, "rs"), Blank(n)) : n \in 0..(MaxLoc + 1)}
        \cup {UnreadableFile(Path(dir, stem, "rs")),
              File(Path(dir, stem, "txt"), Blank(MaxLoc + 1))}

LocEntries(k) ==
    LocFiles(<<"src">>, Names[k])
        \cup {UnreadableDir(Path(<<"src">>, Names[k], ""))}
        \cup {Dir(Path(<<"src">>, Names[k], ""), <<f>>) :
                  f \in LocFiles(<<"src", Names[k]>>, Names[1])}

LocDirs ==
    UNION {{d \in [1..n -> UNION {LocEntries(k) : k \in 1..n}] :
                \A k \in 1..n : d[k] \in LocEntries(k)} : n \in 0..MaxFiles}

LocProjects ==
    {[src |-> None]} \cup {[src |-> Some(Dir(Path(<<>>, "src", ""), d))] : d \in LocDirs}

LocLimits ==
    /\ check_pc = "idle"
    /\ results' = loc_limits_check(project, config.max_file_loc, config.warn_file_loc)
    /\ check_pc' = "done"
    /\ UNCHANGED <<config, only, project, walk, ran, output, previous, scanVars, hostVars, pingVars>>

NoHosts ==
    /\ hosts = <<>>
    /\ default_model = None
    /\ CommandIdle

InitLoc ==
    /\ NoHosts
    /\ config \in [max_file_loc : 0..MaxLoc, warn_file_loc : 0..MaxLoc]
    /\ project \in LocProjects
    /\ only = None
    /\ check_pc = "idle"
    /\ walk = <<>>
    /\ ran = <<>>
    /\ output = <<>>
    /\ previous = None
    /\ results = <<>>
    /\ content = <<>>
    /\ scan = <<>>
    /\ counted = {}

NextLoc == LocLimits

SpecLoc == InitLoc /\ [][NextLoc]_vars

\* the files with extension rs anywhere under a directory
RECURSIVE SourceFiles(_)
SourceFiles(dir) ==
    IF ~dir.read.ok THEN {}
    ELSE UNION {IF e.kind = "dir" THEN SourceFiles(e)
                ELSE IF e.name.ext = "rs" THEN {e} ELSE {}
                : e \in Range(dir.read.entries)}

LocChecked ==
    IF check_pc = "done" /\ project # <<>> /\ project.src # None
    THEN SourceFiles(project.src[1]) ELSE {}

ResultsFor(f) == {i \in DOMAIN results : results[i].file = Some(f.name)}

IsPass(r) == r.passed
IsWarning(r) == ~r.passed /\ r.severity = "Warning"
IsError(r) == ~r.passed /\ r.severity = "Error"

\* C8 as stated: for every source file and every threshold pair, Pass when
\* lines <= warn_threshold, Warning when warn_threshold < lines <= max, Error
\* when lines > max.
C8_ThreeBandsEveryPair ==
    \A f \in LocChecked : f.read.ok =>
        \A i \in ResultsFor(f) :
            LET lines == Len(f.read.lines)
                warn == config.warn_file_loc
                max == config.max_file_loc
            IN  /\ lines <= warn => IsPass(results[i])
                /\ (warn < lines /\ lines <= max) => IsWarning(results[i])
                /\ lines > max => IsError(results[i])

\* C8, corrected: every readable source file gets exactly one loc-limits
\* result, which is an Error failure when lines > max, otherwise a Warning
\* failure when lines > warn_threshold, otherwise a Pass; so for every pair
\* with warn_threshold <= max the bands are Pass for lines <= warn_threshold,
\* Warning for warn_threshold < lines <= max and Error for lines > max, with
\* lines = warn_threshold a Pass and lines = max not an Error.
C8_LocClassification ==
    \A f \in LocChecked : f.read.ok =>
        /\ Cardinality(ResultsFor(f)) = 1
        /\ \A i \in ResultsFor(f) :
            LET lines == Len(f.read.lines)
                warn == config.warn_file_loc
                max == config.max_file_loc
                r == results[i]
            IN  /\ r.check_name = "loc-limits"
                /\ IsError(r) <=> lines > max
                /\ IsWarning(r) <=> (lines <= max /\ lines > warn)
                /\ IsPass(r) <=> (lines <= max /\ lines <= warn)
                /\ warn <= max =>
                    /\ lines <= warn => IsPass(r)
                    /\ (warn < lines /\ lines <= max) => IsWarning(r)
                    /\ lines > max => IsError(r)
                    /\ lines = max => ~IsError(r)

\* both boundaries met in one run, under thresholds in the usual order: a
\* file of exactly warn_threshold lines passed, one of exactly max lines got
\* a Warning
C8_Witness ==
    /\ check_pc = "done"
    /\ config # <<>>
    /\ config.warn_file_loc < config.max_file_loc
    /\ \E f, g \in LocChecked :
        /\ f.read.ok /\ Len(f.read.lines) = config.warn_file_loc
        /\ g.read.ok /\ Len(g.read.lines) = config.max_file_loc
        /\ \E i \in ResultsFor(f) : IsPass(results[i])
        /\ \E j \in ResultsFor(g) : IsWarning(results[j])

(***************************************************************************)
(* Source text.  A file is the sequence of its lines and a line the        *)
(* sequence of its lexical tokens; what the scanners ask of a line (does   *)
(* it contain this text, does it start with that, which braces does it     *)
(* hold and in what order) is answered from the tokens.                    *)
(***************************************************************************)
CfgTest == "#[cfg(test)]"
RawOpen == "r#\""
RawClose == "\"#"
FnKw == "fn "

Contains(line, tok) == \E i \in DOMAIN line : line[i] = tok
StartsWith(line, toks) == line # <<>> /\ line[1] \in toks

\* trimmed.contains('('): the attribute text holds a parenthesis too
BeforeParen ==
    [t \in {"(", CfgTest, "assert!(true)", "assert_eq!(x, 1)", "todo!()"} |->
        CASE t = "(" -> ""
          [] t = CfgTest -> "#[cfg"
          [] t = "assert!(true)" -> "assert!"
          [] t = "assert_eq!(x, 1)" -> "assert_eq!"
          [] t = "todo!()" -> "todo!"]
HasParen(tok) == tok \in DOMAIN BeforeParen
ContainsParen(line) == \E i \in DOMAIN line : HasParen(line[i])

(***************************************************************************)
(* checks/function_count.rs: count_functions, one line of the loop at a    *)
(* time.  The locals are the fields of the record.                         *)
(***************************************************************************)
count_functions_init ==
    [count |-> 0, in_test_module |-> FALSE, in_raw_string |-> FALSE,
     brace_depth |-> 0, test_module_depth |-> 0]

\* for ch in line.chars() { match ch { '{' .. '}' .. } }
RECURSIVE count_functions_braces(_, _, _)
count_functions_braces(s, line, k) ==
    IF k > Len(line) THEN s
    ELSE count_functions_braces(
             IF line[k] = "{" THEN [s EXCEPT !.brace_depth = @ + 1]
             ELSE IF line[k] = "}" /\ s.in_test_module
                                   /\ s.brace_depth - 1 <= s.test_module_depth
             THEN [s EXCEPT !.brace_depth = @ - 1, !.in_test_module = FALSE]
             ELSE IF line[k] = "}" THEN [s EXCEPT !.brace_depth = @ - 1]
             ELSE s,
             line, k + 1)

count_functions_line_raw_one_line(s, line) ==
    IF Contains(line, RawOpen) \/ s.in_raw_string
    THEN [s EXCEPT !.in_raw_string = FALSE]
    ELSE LET s2 == IF Contains(line, CfgTest)
                   THEN [s EXCEPT !.in_test_module = TRUE,
                                  !.test_module_depth = s.brace_depth]
                   ELSE s
             s3 == count_functions_braces(s2, line, 1)
         IN  IF \/ s3.in_test_module
                \/ StartsWith(line, {"//", "/*", "*"})
             THEN s3
             ELSE IF Contains(line, FnKw) /\ ContainsParen(line)
             THEN [s3 EXCEPT !.count = @ + 1]
             ELSE s3

count_functions_line(s, line) ==
    LET s1 == IF Contains(line, RawOpen) THEN [s EXCEPT !.in_raw_string = TRUE] ELSE s
    IN  IF s1.in_raw_string
        THEN IF Contains(line, RawClose) THEN [s1 EXCEPT !.in_raw_string = FALSE] ELSE s1
        ELSE LET s2 == IF Contains(line, CfgTest)
                       THEN [s1 EXCEPT !.in_test_module = TRUE,
                                       !.test_module_depth = s1.brace_depth]
                       ELSE s1
                 s3 == count_functions_braces(s2, line, 1)
             IN  IF \/ s3.in_test_module
                    \/ StartsWith(line, {"//", "/*", "*"})
                 THEN s3
                 ELSE IF Contains(line, FnKw) /\ ContainsParen(line)
                 THEN [s3 EXCEPT !.count = @ + 1]
                 ELSE s3

RECURSIVE count_functions_from(_, _, _)
count_functions_from(s, lines, k) ==
    IF k > Len(lines) THEN s.count
    ELSE count_functions_from(count_functions_line(s, lines[k]), lines, k + 1)

count_functions(lines) == count_functions_from(count_functions_init, lines, 1)

function_count_file_result_ge(function_count, path, max_functions) ==
    IF function_count >= max_functions
    THEN with_fix(with_file(CheckResult_fail("function-count", "Error",
             [fmt |-> "{file_name}: {function_count} functions exceeds max {max_functions}",
              file_name |-> path, function_count |-> function_count,
              max_functions |-> max_functions]), path),
             [fmt |-> "Split {file_name} into smaller modules with fewer functions",
              file_name |-> path])
    ELSE with_file(CheckResult_pass("function-count",
             [fmt |-> "{file_name}: {function_count} functions (OK)",
              file_name |-> path, function_count |-> function_count]), path)

\* collect_results, for one readable file
function_count_file_result(function_count, path, max_functions) ==
    IF function_count > max_functions
    THEN with_fix(with_file(CheckResult_fail("function-count", "Error",
             [fmt |-> "{file_name}: {function_count} functions exceeds max {max_functions}",
              file_name |-> path, function_count |-> function_count,
              max_functions |-> max_functions]), path),
             [fmt |-> "Split {file_name} into smaller modules with fewer functions",
              file_name |-> path])
    ELSE with_file(CheckResult_pass("function-count",
             [fmt |-> "{file_name}: {function_count} functions (OK)",
              file_name |-> path, function_count |-> function_count]), path)

RECURSIVE count_functions_state_from(_, _, _)
count_functions_state_from(s, lines, k) ==
    IF k > Len(lines) THEN s
    ELSE count_functions_state_from(count_functions_line(s, lines[k]), lines, k + 1)

RECURSIVE function_count_collect_results_shared_scanner(_, _)
function_count_collect_results_shared_scanner(dir, max_functions) ==
    IF ~dir.read.ok THEN <<>>
    ELSE LET entries == dir.read.entries
             visit[k \in 0..Len(entries)] ==
                 IF k = 0 THEN [out |-> <<>>, s |-> count_functions_init]
                 ELSE LET path == entries[k]
                          was == visit[k - 1]
                          end == count_functions_state_from(
                                     [was.s EXCEPT !.count = 0], path.read.lines, 1)
                      IN  IF path.kind = "dir"
                          THEN [was EXCEPT !.out = @ \o
                                   function_count_collect_results_shared_scanner(path, max_functions)]
                          ELSE IF IsRs(path.name)
                          THEN IF ~path.read.ok
                               THEN [was EXCEPT !.out = Append(@,
                                        with_file(CheckResult_fail("function-count", "Warning",
                                           [fmt |-> "Read error: {e}", e |-> path.read.error]),
                                           path.name))]
                               ELSE [out |-> Append(was.out, function_count_file_result(
                                                end.count, path.name, max_functions)),
                                     s |-> end]
                          ELSE was
         IN  visit[Len(entries)].out

RECURSIVE function_count_collect_results(_, _)
function_count_collect_results(dir, max_functions) ==
    IF ~dir.read.ok THEN <<>>
    ELSE LET entries == dir.read.entries
             visit[k \in 0..Len(entries)] ==
                 IF k = 0 THEN <<>>
                 ELSE LET path == entries[k]
                      IN  visit[k - 1] \o
                          ( IF path.kind = "dir"
                            THEN function_count_collect_results(path, max_functions)
                            ELSE IF IsRs(path.name)
                            THEN IF ~path.read.ok
                                 THEN <<with_file(CheckResult_fail("function-count", "Warning",
                                           [fmt |-> "Read error: {e}", e |-> path.read.error]),
                                           path.name)>>
                                 ELSE <<function_count_file_result(
                                           count_functions(path.read.lines),
                                           path.name, max_functions)>>
                            ELSE <<>> )
         IN  visit[Len(entries)]

function_count_check(proj, max_functions) ==
    IF proj.src = None THEN <<>>
    ELSE function_count_collect_results(proj.src[1], max_functions)

(***************************************************************************)
(* count_functions over a file that content.lines() yields line by line:   *)
(* content holds the lines yielded so far, counted the numbers of the      *)
(* lines at which count was incremented.                                   *)
(***************************************************************************)
MaxLines == 5

FnLines ==
    { <<CfgTest>>,
      <<"mod", "{">>,
      <<CfgTest, "mod", "{">>,
      <<FnKw, "(", ")", "{", "}">>,
      <<FnKw, "(", ")", "{">>,
      <<"}">>,
      <<"//", FnKw, "(", ")">>,
      <<"let", RawOpen>>,
      <<FnKw, "(", ")", RawClose>> }

FnPath == Path(<<"src">>, Names[1], "rs")

CountFunctions ==
    /\ check_pc = "idle"
    /\ check_pc' = "count_functions"
    /\ scan' = count_functions_init
    /\ UNCHANGED <<config, only, project, walk, ran, output, previous, results, content, counted, hostVars, pingVars>>

CountFunctionsLine ==
    /\ check_pc = "count_functions"
    /\ Len(content) < MaxLines
    /\ \E line \in FnLines :
        /\ content' = Append(content, line)
        /\ scan' = count_functions_line(scan, line)
        /\ counted' = IF scan'.count > scan.count
                      THEN counted \cup {Len(content')} ELSE counted
    /\ UNCHANGED <<checkVars, hostVars, pingVars>>

CountFunctionsReturn ==
    /\ check_pc = "count_functions"
    /\ check_pc' = "done"
    /\ results' = <<function_count_file_result(scan.count, FnPath,
                                                config.max_functions_per_module)>>
    /\ UNCHANGED <<config, only, project, walk, ran, output, previous, scanVars, hostVars, pingVars>>

InitFn ==
    /\ NoHosts
    /\ config = CheckConfig_default
    /\ only = None
    /\ project = <<>>
    /\ check_pc = "idle"
    /\ walk = <<>>
    /\ ran = <<>>
    /\ output = <<>>
    /\ previous = None
    /\ results = <<>>
    /\ content = <<>>
    /\ scan = <<>>
    /\ counted = {}

NextFn == CountFunctions \/ CountFunctionsLine \/ CountFunctionsReturn

SpecFn == InitFn /\ [][NextFn]_vars

(***************************************************************************)
(* What the text of a file says, read off its tokens independently of the  *)
(* scanners: the braces in order, the block a marker introduces.           *)
(***************************************************************************)
\* lines of text in a raw string literal r#" ... "#, as the language reads it
RECURSIVE RawLines(_)
RawLines(lines) ==
    IF lines = <<>> THEN {}
    ELSE LET n == Len(lines)
             before == SubSeq(lines, 1, n - 1)
             opened == \E i \in 1..(n - 1) :
                           /\ Contains(lines[i], RawOpen)
                           /\ \A j \in i..(n - 1) : ~Contains(lines[j], RawClose)
         IN  RawLines(before) \cup (IF opened THEN {n} ELSE {})

\* the text outside raw string literals
Code(lines) == [l \in DOMAIN lines |-> IF l \in RawLines(lines) THEN <<>> ELSE lines[l]]

RECURSIVE Flatten(_)
Flatten(lines) ==
    IF lines = <<>> THEN <<>>
    ELSE Flatten(SubSeq(lines, 1, Len(lines) - 1))
             \o [k \in 1..Len(lines[Len(lines)]) |->
                    [line |-> Len(lines), tok |-> lines[Len(lines)][k]]]

\* brace depth after the first k tokens
RECURSIVE DepthAt(_, _)
DepthAt(flat, k) ==
    IF k = 0 THEN 0
    ELSE DepthAt(flat, k - 1)
             + (IF flat[k].tok = "{" THEN 1 ELSE IF flat[k].tok = "}" THEN -1 ELSE 0)

Balanced(lines) ==
    LET flat == Flatten(Code(lines))
    IN  /\ \A k \in DOMAIN flat : DepthAt(flat, k) >= 0
        /\ DepthAt(flat, Len(flat)) = 0

\* the blocks introduced by the tokens tok: for each occurrence, the first
\* opening brace after it and the brace that closes it, as the pair of their
\* line numbers together with the line of the occurrence
BlocksOf(lines, tok) ==
    LET flat == Flatten(Code(lines))
        Opens(m) == {o \in DOMAIN flat : o > m /\ flat[o].tok = "{"}
        Open(m) == CHOOSE o \in Opens(m) : \A o2 \in Opens(m) : o <= o2
        Closes(o) == {c \in DOMAIN flat : c > o /\ DepthAt(flat, c) = DepthAt(flat, o - 1)}
        Close(o) == CHOOSE c \in Closes(o) : \A c2 \in Closes(o) : c <= c2
    IN  {[at |-> flat[m].line, open |-> flat[Open(m)].line, close |-> flat[Close(Open(m))].line,
          at_tok |-> m, open_tok |-> Open(m), close_tok |-> Close(Open(m))] :
            m \in {m \in DOMAIN flat :
                      flat[m].tok = tok /\ Opens(m) # {} /\ Closes(Open(m)) # {}}}

StrictlyInside(l, blocks) == \E b \in blocks : b.open < l /\ l < b.close
Outside(l, blocks) == \A b \in blocks : l < b.at \/ b.close < l

FunctionLines(lines) ==
    {l \in DOMAIN lines :
        /\ Contains(lines[l], FnKw)
        /\ Contains(lines[l], "(")
        /\ ~StartsWith(lines[l], {"//", "/*", "*"})
        /\ l \notin RawLines(lines)}

\* a file the compiler would take: braces balanced, every raw string closed
\* and closed only where one is open, every marker directly on an item
WellFormed(lines, marker, items) ==
    LET flat == Flatten(Code(lines))
    IN  /\ Balanced(lines)
        /\ \A l \in DOMAIN lines :
               /\ Contains(lines[l], RawClose) => l \in RawLines(lines)
               /\ Contains(lines[l], RawOpen) =>
                      \E c \in l..Len(lines) : Contains(lines[c], RawClose)
        /\ \A m \in DOMAIN flat :
               flat[m].tok = marker => (m < Len(flat) /\ flat[m + 1].tok \in items)

Scanned(p) == check_pc = "done" /\ scan # <<>> /\ p \in DOMAIN scan

\* C9, first part: in a file whose braces are balanced, no line strictly inside
\* a block introduced by a #[cfg(test)] marker is counted as a function.
C9_NoCountInsideTestBlock ==
    (Scanned("in_test_module") /\ WellFormed(content, CfgTest, {"mod", FnKw})) =>
        \A l \in counted : ~StrictlyInside(l, BlocksOf(content, CfgTest))

\* C9, second part: in a file whose braces are balanced, the function lines
\* before every marker and after the closing brace of its block are counted.
C9_CountsOutsideTestBlock ==
    (Scanned("in_test_module") /\ WellFormed(content, CfgTest, {"mod", FnKw})) =>
        \A l \in FunctionLines(content) :
            Outside(l, BlocksOf(content, CfgTest)) => l \in counted

\* C9: for every file whose braces are balanced, the function-count check
\* never counts a function line strictly inside a block introduced by a
\* #[cfg(test)] marker, at any nesting depth and wherever the braces sit, and
\* counts the functions before the marker and after the block's closing brace.
C9_TestBlockExcluded == C9_NoCountInsideTestBlock /\ C9_CountsOutsideTestBlock

(***************************************************************************)
(* checks/test_quality.rs: analyze_file, one line of the loop at a time.   *)
(* A test name is the sequence of the pieces of text between "fn " and the *)
(* next parenthesis; the empty sequence is the empty string.               *)
(***************************************************************************)
TestAttr == "#[test]"

TRIVIAL_PATTERNS ==
    << "assert!(true)", "assert_eq!(1, 1)", "assert_eq!(true, true)",
       "assert_ne!(1, 2)", "assert_ne!(true, false)", "todo!()",
       "unimplemented!()", "panic!(\"not implemented\")",
       "panic!(\"not yet implemented\")" >>

analyze_file_init ==
    [results |-> <<>>, in_test_function |-> FALSE, in_raw_string |-> FALSE,
     test_start_line |-> 0, test_name |-> <<>>, brace_depth |-> 0,
     test_brace_depth |-> 0]

\* trimmed.find("fn ").map(|p| p + 3), then trimmed[start..].find('(')
FnAt(line) == CHOOSE i \in DOMAIN line : line[i] = FnKw /\ \A j \in 1..(i - 1) : line[j] # FnKw
ParenAfter(line, i) ==
    CHOOSE j \in (i + 1)..Len(line) :
        HasParen(line[j]) /\ \A k \in (i + 1)..(j - 1) : ~HasParen(line[k])
NameText(line) ==
    LET i == FnAt(line)
        j == ParenAfter(line, i)
    IN  SubSeq(line, i + 1, j - 1)
            \o (IF BeforeParen[line[j]] = "" THEN <<>> ELSE <<BeforeParen[line[j]]>>)

analyze_file_name(s, line) ==
    IF s.in_test_function /\ s.test_name = <<>> /\ Contains(line, FnKw)
       /\ \E j \in (FnAt(line) + 1)..Len(line) : HasParen(line[j])
    THEN [s EXCEPT !.test_name = NameText(line), !.test_brace_depth = s.brace_depth]
    ELSE s

RECURSIVE analyze_file_braces(_, _, _)
analyze_file_braces(s, line, k) ==
    IF k > Len(line) THEN s
    ELSE analyze_file_braces(
             IF line[k] = "{" THEN [s EXCEPT !.brace_depth = @ + 1]
             ELSE IF line[k] = "}"
             THEN IF s.in_test_function /\ s.test_name # <<>>
                     /\ s.brace_depth - 1 <= s.test_brace_depth
                  THEN [s EXCEPT !.brace_depth = @ - 1, !.in_test_function = FALSE,
                                 !.test_name = <<>>]
                  ELSE [s EXCEPT !.brace_depth = @ - 1]
             ELSE s,
             line, k + 1)

TrivialFinding(pattern, test_name, test_start_line, file_path, line_number) ==
    with_fix(with_line(with_file(
        CheckResult_fail("test-quality", "Warning",
            [fmt |-> "Trivial test pattern '{pattern}' in test '{test_name}'",
             pattern |-> pattern, test_name |-> test_name]),
        file_path), line_number),
        [fmt |-> "Replace trivial assertion with meaningful test logic in '{test_name}' (started at line {test_start_line})",
         test_name |-> test_name, test_start_line |-> test_start_line])

RECURSIVE analyze_file_patterns(_, _, _, _, _)
analyze_file_patterns(s, line, file_path, line_number, k) ==
    IF k > Len(TRIVIAL_PATTERNS) THEN s
    ELSE analyze_file_patterns(
             IF Contains(line, TRIVIAL_PATTERNS[k])
             THEN [s EXCEPT !.results = Append(@,
                      TrivialFinding(TRIVIAL_PATTERNS[k], s.test_name, s.test_start_line,
                                     file_path, line_number))]
             ELSE s,
             line, file_path, line_number, k + 1)

analyze_file_line(s, line, file_path, line_number) ==
    LET s1 == IF Contains(line, RawOpen) THEN [s EXCEPT !.in_raw_string = TRUE] ELSE s
    IN  IF s1.in_raw_string
        THEN IF Contains(line, RawClose) THEN [s1 EXCEPT !.in_raw_string = FALSE] ELSE s1
        ELSE IF line = <<TestAttr>>
        THEN [s1 EXCEPT !.in_test_function = TRUE, !.test_start_line = line_number]
        ELSE LET s2 == analyze_file_name(s1, line)
                 s3 == analyze_file_braces(s2, line, 1)
             IN  IF s3.in_test_function /\ s3.test_name # <<>>
                 THEN analyze_file_patterns(s3, line, file_path, line_number, 1)
                 ELSE s3

RECURSIVE analyze_file_from(_, _, _, _)
analyze_file_from(s, lines, file_path, k) ==
    IF k > Len(lines) THEN s.results
    ELSE analyze_file_from(analyze_file_line(s, lines[k], file_path, k), lines, file_path, k + 1)

analyze_file(lines, file_path) == analyze_file_from(analyze_file_init, lines, file_path, 1)

\* collect_results, for one readable file
test_quality_file_results(file_results, path) ==
    IF file_results = <<>>
    THEN <<with_file(CheckResult_pass("test-quality",
               [fmt |-> "{file_name}: No trivial tests found", file_name |-> path]), path)>>
    ELSE file_results

RECURSIVE test_quality_collect_results(_)
test_quality_collect_results(dir) ==
    IF ~dir.read.ok THEN <<>>
    ELSE LET entries == dir.read.entries
             visit[k \in 0..Len(entries)] ==
                 IF k = 0 THEN <<>>
                 ELSE LET path == entries[k]
                      IN  visit[k - 1] \o
                          ( IF path.kind = "dir"
                            THEN test_quality_collect_results(path)
                            ELSE IF IsRs(path.name)
                            THEN IF ~path.read.ok
                                 THEN <<with_file(CheckResult_fail("test-quality", "Warning",
                                           [fmt |-> "Read error: {e}", e |-> path.read.error]),
                                           path.name)>>
                                 ELSE test_quality_file_results(
                                          analyze_file(path.read.lines, path.name), path.name)
                            ELSE <<>> )
         IN  visit[Len(entries)]

test_quality_check(proj) ==
    IF proj.src = None THEN <<>>
    ELSE test_quality_collect_results(proj.src[1])

(***************************************************************************)
(* analyze_file over a file that content.lines() yields line by line, and  *)
(* what collect_results pushes for the file when the analysis returns.     *)
(***************************************************************************)
TqLines ==
    { <<TestAttr>>,
      <<FnKw, "t1", "(", ")", "{">>,
      <<FnKw, "t2", "(", ")", "{", "assert!(true)", "}">>,
      <<"assert!(true)">>,
      <<"assert_eq!(x, 1)">>,
      <<"todo!()", "}">>,
      <<"}">>,
      <<"mod", "{">>,
      <<"let", RawOpen>>,
      <<"assert!(true)", RawClose>> }

TqPath == Path(<<"src">>, Names[1], "rs")

AnalyzeFile ==
    /\ check_pc = "idle"
    /\ check_pc' = "analyze_file"
    /\ scan' = analyze_file_init
    /\ UNCHANGED <<config, only, project, walk, ran, output, previous, results, content, counted, hostVars, pingVars>>

AnalyzeFileLine ==
    /\ check_pc = "analyze_file"
    /\ Len(content) < MaxLines
    /\ \E line \in TqLines :
        /\ content' = Append(content, line)
        /\ scan' = analyze_file_line(scan, line, TqPath, Len(content'))
    /\ UNCHANGED <<checkVars, counted, hostVars, pingVars>>

AnalyzeFileReturn ==
    /\ check_pc = "analyze_file"
    /\ check_pc' = "done"
    /\ results' = test_quality_file_results(scan.results, TqPath)
    /\ UNCHANGED <<config, only, project, walk, ran, output, previous, scanVars, hostVars, pingVars>>

InitTq ==
    /\ NoHosts
    /\ ChecksIdle

NextTq == AnalyzeFile \/ AnalyzeFileLine \/ AnalyzeFileReturn

SpecTq == InitTq /\ [][NextTq]_vars

\* the trivial patterns written inside the body of a #[test] function: the
\* token, its line, and the name of the function
TrivialInTests(lines) ==
    LET flat == Flatten(Code(lines))
        patterns == {k \in DOMAIN flat : flat[k].tok \in Range(TRIVIAL_PATTERNS)}
        inside == {kb \in patterns \X BlocksOf(lines, TestAttr) :
                      kb[2].open_tok < kb[1] /\ kb[1] < kb[2].close_tok}
    IN  {[line |-> flat[kb[1]].line, pattern |-> flat[kb[1]].tok,
          test_name |-> <<flat[kb[2].at_tok + 2].tok>>] : kb \in inside}

IsTrivialFinding(r) ==
    /\ ~r.passed
    /\ r.check_name = "test-quality"
    /\ r.line # None
    /\ "pattern" \in DOMAIN r.message

\* C10, first part: every line inside a #[test] function that holds a trivial
\* pattern gets a Warning finding on that line naming the enclosing test.
C10_EveryTrivialLineFlagged ==
    (Scanned("in_test_function") /\ WellFormed(content, TestAttr, {FnKw})) =>
        \A t \in TrivialInTests(content) :
            \E i \in DOMAIN results :
                /\ IsTrivialFinding(results[i])
                /\ results[i].severity = "Warning"
                /\ results[i].line = Some(t.line)
                /\ results[i].message.pattern = t.pattern
                /\ results[i].message.test_name = t.test_name

\* C10, second part: a finding is only ever on a line that holds one of the
\* trivial patterns, so a test asserting on computed values yields none.
C10_NoFindingWithoutPattern ==
    Scanned("in_test_function") =>
        \A i \in DOMAIN results :
            ~results[i].passed =>
                /\ IsTrivialFinding(results[i])
                /\ results[i].message.pattern \in Range(TRIVIAL_PATTERNS)
                /\ Contains(content[results[i].line[1]], results[i].message.pattern)

\* C10, third part: a file with no match yields exactly one Pass result.
C10_OnePassWhenNoMatch ==
    Scanned("in_test_function") =>
        ((\A i \in DOMAIN results : results[i].passed) =>
            /\ Len(results) = 1
            /\ results[1].passed /\ results[1].severity = "Info"
            /\ scan.results = <<>>)

\* C10: trivial-test detection emits a Warning finding for every line inside
\* a #[test] function that contains one of the fixed patterns, whatever the
\* layout of the test body, naming the enclosing test; a test asserting on
\* computed values yields no finding; a file with no match yields one Pass.
C10_TrivialTestDetection ==
    /\ C10_EveryTrivialLineFlagged
    /\ C10_NoFindingWithoutPattern
    /\ C10_OnePassWhenNoMatch

(***************************************************************************)
(* checks/clippy_disables.rs.  A lint name is the sequence of the pieces   *)
(* of text between "allow(" and the next closing parenthesis.              *)
(***************************************************************************)
SUPPRESS_PATTERNS == <<"#[allow(", "#![allow(", "#[cfg_attr(">>
ALLOWED_SUPPRESSIONS == <<"dead_code", "unused">>

\* the tokens whose text holds "allow("
AllowTokens == {"allow(", "#[allow(", "#![allow("}

\* the text of a token before its first ')', for the tokens that hold one
BeforeCloseParen ==
    [t \in {")", CfgTest, "assert!(true)", "assert_eq!(x, 1)", "todo!()"} |->
        CASE t = ")" -> ""
          [] t = CfgTest -> "#[cfg(test"
          [] t = "assert!(true)" -> "assert!(true"
          [] t = "assert_eq!(x, 1)" -> "assert_eq!(x, 1"
          [] t = "todo!()" -> "todo!("]

\* piece.contains(allowed), piece.starts_with("clippy::")
TextContains(piece, allowed) ==
    \/ piece = allowed
    \/ allowed = "unused" /\ piece \in {"unused_variables", "clippy::unused_self"}
StartsWithClippy(piece) == piece \in {"clippy::unwrap_used", "clippy::unused_self"}

extract_lint_name(line) ==
    IF \E i \in DOMAIN line : line[i] \in AllowTokens
    THEN LET start == CHOOSE i \in DOMAIN line :
                          line[i] \in AllowTokens /\ \A j \in 1..(i - 1) : line[j] \notin AllowTokens
             ends == {j \in (start + 1)..Len(line) : line[j] \in DOMAIN BeforeCloseParen}
         IN  IF ends = {} THEN <<>>
             ELSE LET end == CHOOSE j \in ends : \A k \in ends : j <= k
                  IN  SubSeq(line, start + 1, end - 1)
                          \o (IF BeforeCloseParen[line[end]] = "" THEN <<>>
                              ELSE <<BeforeCloseParen[line[end]]>>)
    ELSE <<>>

is_allowed_suppression(lint_name) ==
    \E a \in DOMAIN ALLOWED_SUPPRESSIONS :
        \E k \in DOMAIN lint_name : TextContains(lint_name[k], ALLOWED_SUPPRESSIONS[a])

clippy_disables_init == [results |-> <<>>, in_raw_string |-> FALSE]

RECURSIVE clippy_disables_patterns(_, _, _, _, _)
clippy_disables_patterns(s, line, file_path, line_number, k) ==
    IF k > Len(SUPPRESS_PATTERNS) THEN s
    ELSE clippy_disables_patterns(
             IF Contains(line, SUPPRESS_PATTERNS[k])
                /\ ~(SUPPRESS_PATTERNS[k] = "#[cfg_attr("
                        /\ ~\E i \in DOMAIN line : line[i] \in AllowTokens)
                /\ ~is_allowed_suppression(extract_lint_name(line))
             THEN LET lint_name == extract_lint_name(line)
                      severity == IF lint_name # <<>> /\ StartsWithClippy(lint_name[1])
                                  THEN "Error" ELSE "Warning"
                  IN  [s EXCEPT !.results = Append(@,
                          with_fix(with_line(with_file(
                              CheckResult_fail("clippy-disables", severity,
                                  [fmt |-> "{file_name}: Lint suppression found: {}",
                                   file_name |-> file_path, trimmed |-> line]),
                              file_path), line_number),
                              [fmt |-> "Remove the #[allow(...)] and fix the underlying issue instead"]))]
             ELSE s,
             line, file_path, line_number, k + 1)

clippy_disables_line_closed_on_line(s, line, file_path, line_number) ==
    LET s1 == IF Contains(line, RawOpen) /\ ~Contains(line, RawClose)
              THEN [s EXCEPT !.in_raw_string = TRUE] ELSE s
    IN  IF s1.in_raw_string
        THEN IF Contains(line, RawClose) THEN [s1 EXCEPT !.in_raw_string = FALSE] ELSE s1
        ELSE IF StartsWith(line, {"//"}) THEN s1
        ELSE clippy_disables_patterns(s1, line, file_path, line_number, 1)

clippy_disables_line(s, line, file_path, line_number) ==
    LET s1 == IF Contains(line, RawOpen) THEN [s EXCEPT !.in_raw_string = TRUE] ELSE s
    IN  IF s1.in_raw_string
        THEN IF Contains(line, RawClose) THEN [s1 EXCEPT !.in_raw_string = FALSE] ELSE s1
        ELSE IF StartsWith(line, {"//"}) THEN s1
        ELSE clippy_disables_patterns(s1, line, file_path, line_number, 1)

RECURSIVE clippy_disables_from(_, _, _, _)
clippy_disables_from(s, lines, file_path, k) ==
    IF k > Len(lines) THEN s.results
    ELSE clippy_disables_from(clippy_disables_line(s, lines[k], file_path, k),
                              lines, file_path, k + 1)

clippy_disables_file_results(found, path) ==
    IF found = <<>>
    THEN <<with_file(CheckResult_pass("clippy-disables",
               [fmt |-> "{file_name}: No lint suppressions found",
                file_name |-> path]), path)>>
    ELSE found

clippy_disables_check_file(f) ==
    IF ~f.read.ok
    THEN <<with_file(CheckResult_fail("clippy-disables", "Warning",
               [fmt |-> "Read error: {e}", e |-> f.read.error]), f.name)>>
    ELSE clippy_disables_file_results(
             clippy_disables_from(clippy_disables_init, f.read.lines, f.name, 1), f.name)

RECURSIVE clippy_disables_check_directory(_)
clippy_disables_check_directory(dir) ==
    IF ~dir.read.ok THEN <<>>
    ELSE LET entries == dir.read.entries
             visit[k \in 0..Len(entries)] ==
                 IF k = 0 THEN <<>>
                 ELSE LET path == entries[k]
                      IN  visit[k - 1] \o
                          ( IF path.kind = "dir"
                            THEN clippy_disables_check_directory(path)
                            ELSE IF IsRs(path.name)
                            THEN clippy_disables_check_file(path)
                            ELSE <<>> )
         IN  visit[Len(entries)]

clippy_disables_check(proj) ==
    IF proj.src = None THEN <<>>
    ELSE clippy_disables_check_directory(proj.src[1])

(***************************************************************************)
(* checks/rust_edition.rs.  A manifest is what read_to_string returns for  *)
(* a Cargo.toml: an error, or its text, of which the model keeps whether   *)
(* it holds "[workspace]" and what it parses to.  The project directory    *)
(* lists its subdirectories, each with its own manifest and src if any.    *)
(***************************************************************************)
Manifest(path, has_workspace_text, toml) ==
    [name |-> path,
     read |-> [ok |-> TRUE, has_workspace_text |-> has_workspace_text, toml |-> toml]]
UnreadableManifest(path) ==
    [name |-> path, read |-> [ok |-> FALSE, error |-> "Permission denied"]]
Toml(package, workspace) == [ok |-> TRUE, package |-> package, workspace |-> workspace]
InvalidToml == [ok |-> FALSE, error |-> "expected an equals"]
Package(edition) == [edition |-> edition]

is_ignored_dir(name) == name \in {"target", ".git", "node_modules", ".cargo"}

find_cargo_files(proj) ==
    (IF proj.cargo # None THEN proj.cargo ELSE <<>>)
        \o (IF proj.entries.ok
            THEN LET entries == proj.entries.entries
                     visit[k \in 0..Len(entries)] ==
                         IF k = 0 THEN <<>>
                         ELSE visit[k - 1] \o
                              (IF ~is_ignored_dir(entries[k].name) /\ entries[k].cargo # None
                               THEN entries[k].cargo ELSE <<>>)
                 IN  visit[Len(entries)]
            ELSE <<>>)

check_edition_value_any_workspace(toml, cargo_path, required) ==
    LET edition == IF toml.package # None THEN toml.package[1].edition ELSE None
    IN  IF edition # None /\ edition[1] = required
        THEN with_file(CheckResult_pass("rust-edition",
                 [fmt |-> "{rel_path}: Using Rust {required} edition",
                  rel_path |-> cargo_path, required |-> required]), cargo_path)
        ELSE IF edition # None
        THEN with_fix(with_file(CheckResult_fail("rust-edition", "Error",
                 [fmt |-> "{rel_path}: Using edition '{e}', expected '{required}'",
                  rel_path |-> cargo_path, e |-> edition[1], required |-> required]), cargo_path),
                 [fmt |-> "Change edition = \"{e}\" to edition = \"{required}\"",
                  e |-> edition[1], required |-> required])
        ELSE IF toml.workspace
        THEN with_file(CheckResult_pass("rust-edition",
                 [fmt |-> "{rel_path}: Workspace root (no edition required)",
                  rel_path |-> cargo_path]), cargo_path)
        ELSE with_fix(with_file(CheckResult_fail("rust-edition", "Error",
                 [fmt |-> "{rel_path}: No edition specified", rel_path |-> cargo_path]),
                 cargo_path),
                 [fmt |-> "Add edition = \"{required}\" to [package] section",
                  required |-> required])

check_edition_value(toml, cargo_path, required) ==
    LET edition == IF toml.package # None THEN toml.package[1].edition ELSE None
    IN  IF edition # None /\ edition[1] = required
        THEN with_file(CheckResult_pass("rust-edition",
                 [fmt |-> "{rel_path}: Using Rust {required} edition",
                  rel_path |-> cargo_path, required |-> required]), cargo_path)
        ELSE IF edition # None
        THEN with_fix(with_file(CheckResult_fail("rust-edition", "Error",
                 [fmt |-> "{rel_path}: Using edition '{e}', expected '{required}'",
                  rel_path |-> cargo_path, e |-> edition[1], required |-> required]), cargo_path),
                 [fmt |-> "Change edition = \"{e}\" to edition = \"{required}\"",
                  e |-> edition[1], required |-> required])
        ELSE IF toml.workspace /\ toml.package = None
        THEN with_file(CheckResult_pass("rust-edition",
                 [fmt |-> "{rel_path}: Workspace root (no edition required)",
                  rel_path |-> cargo_path]), cargo_path)
        ELSE with_fix(with_file(CheckResult_fail("rust-edition", "Error",
                 [fmt |-> "{rel_path}: No edition specified", rel_path |-> cargo_path]),
                 cargo_path),
                 [fmt |-> "Add edition = \"{required}\" to [package] section",
                  required |-> required])

check_cargo_toml(cargo, required_edition) ==
    IF ~cargo.read.ok
    THEN with_file(CheckResult_fail("rust-edition", "Error",
             [fmt |-> "Failed to read: {e}", e |-> cargo.read.error]), cargo.name)
    ELSE IF cargo.read.toml.ok
    THEN check_edition_value(cargo.read.toml, cargo.name, required_edition)
    ELSE with_file(CheckResult_fail("rust-edition", "Error",
             [fmt |-> "Invalid TOML: {e}", e |-> cargo.read.toml.error]), cargo.name)

rust_edition_check(proj, required_edition) ==
    LET cargo_files == find_cargo_files(proj)
    IN  IF cargo_files = <<>>
        THEN <<CheckResult_fail("rust-edition", "Warning", [fmt |-> "No Cargo.toml found"])>>
        ELSE [k \in DOMAIN cargo_files |-> check_cargo_toml(cargo_files[k], required_edition)]

(***************************************************************************)
(* checks/module_count.rs                                                  *)
(***************************************************************************)
has_rs_files(dir) ==
    dir.read.ok /\ \E k \in DOMAIN dir.read.entries : dir.read.entries[k].name.ext = "rs"

\* path.join("mod.rs").exists()
mod_rs_exists(dir) ==
    dir.read.ok /\ \E k \in DOMAIN dir.read.entries :
        LET e == dir.read.entries[k] IN e.name.stem = "mod" /\ e.name.ext = "rs"

count_modules_with_entry_points(src_dir) ==
    IF ~src_dir.read.ok THEN 0
    ELSE LET entries == src_dir.read.entries
         IN  Cardinality({k \in DOMAIN entries :
                 LET e == entries[k]
                 IN  IF e.kind = "file" /\ e.name.ext = "rs"
                     THEN TRUE
                     ELSE e.kind = "dir" /\ (mod_rs_exists(e) \/ has_rs_files(e))})

count_modules(src_dir) ==
    IF ~src_dir.read.ok THEN 0
    ELSE LET entries == src_dir.read.entries
         IN  Cardinality({k \in DOMAIN entries :
                 LET e == entries[k]
                 IN  IF e.kind = "file" /\ e.name.ext = "rs"
                     THEN e.name.stem \notin {"main", "lib", "mod"}
                     ELSE e.kind = "dir" /\ (mod_rs_exists(e) \/ has_rs_files(e))})

check_crate(src_dir, crate_name, max_modules) ==
    LET module_count == count_modules(src_dir)
    IN  IF module_count > max_modules
        THEN with_fix(with_file(CheckResult_fail("module-count", "Error",
                 [fmt |-> "{crate_name}: {module_count} modules exceeds max {max_modules}",
                  crate_name |-> crate_name, module_count |-> module_count,
                  max_modules |-> max_modules]), src_dir.name),
                 [fmt |-> "Consider splitting into multiple crates or reducing module count"])
        ELSE with_file(CheckResult_pass("module-count",
                 [fmt |-> "{crate_name}: {module_count} modules (OK)",
                  crate_name |-> crate_name, module_count |-> module_count]), src_dir.name)

check_workspace(proj, max_modules) ==
    (IF proj.src # None THEN <<check_crate(proj.src[1], "root", max_modules)>> ELSE <<>>)
        \o (IF proj.entries.ok
            THEN LET entries == proj.entries.entries
                     visit[k \in 0..Len(entries)] ==
                         IF k = 0 THEN <<>>
                         ELSE visit[k - 1] \o
                              (IF ~is_ignored_dir(entries[k].name) /\ entries[k].src # None
                               THEN <<check_crate(entries[k].src[1], entries[k].name, max_modules)>>
                               ELSE <<>>)
                 IN  visit[Len(entries)]
            ELSE <<>>)

module_count_check(proj, max_modules) ==
    IF proj.cargo # None /\ proj.cargo[1].read.ok /\ proj.cargo[1].read.has_workspace_text
    THEN check_workspace(proj, max_modules)
    ELSE IF proj.src # None
    THEN <<check_crate(proj.src[1], proj.name, max_modules)>>
    ELSE <<>>

(***************************************************************************)
(* checks/cache_busting.rs.  A line of a markdown file is a sequence of    *)
(* pieces of text: the delimiters the extraction searches for, plain text, *)
(* and link text, of which the model keeps the scheme, the extension of    *)
(* the path as written and the keys of the query string in order.  An      *)
(* extracted link is the sequence of the pieces between its delimiters.    *)
(***************************************************************************)
IMAGE_EXTENSIONS == <<".png", ".jpg", ".jpeg", ".gif", ".svg", ".webp">>

Text(s) == [kind |-> s]
Link(scheme, ext, query) == [kind |-> "link", scheme |-> scheme, ext |-> ext, query |-> query]

\* an image reference written in one of the three syntaxes
ImageRef(syntax, link) ==
    CASE syntax = "![](" -> <<Text("!["), Text("alt"), Text("]("), link, Text(")")>>
      [] syntax = "src=\"" -> <<Text("<img "), Text("src=\""), link, Text("\""), Text(">")>>
      [] syntax = "src='" -> <<Text("<img "), Text("src='"), link, Text("'"), Text(">")>>

\* s.find(pat) from position from: the first piece at or after it whose text
\* holds pat, 0 if none
Find(line, from, kinds) ==
    LET hits == {k \in from..Len(line) : line[k].kind \in kinds}
    IN  IF hits = {} THEN 0 ELSE CHOOSE k \in hits : \A h \in hits : k <= h

\* while let Some(start) = remaining.find("![") { .. find("](") .. find(')') .. }
RECURSIVE extract_markdown(_, _)
extract_markdown(line, from) ==
    LET start == Find(line, from, {"!["})
    IN  IF start = 0 THEN <<>>
        ELSE LET paren_start == Find(line, start + 1, {"]("})
                 paren_end == IF paren_start = 0 THEN 0
                              ELSE Find(line, paren_start + 1, {")"})
             IN  (IF paren_end = 0 THEN <<>>
                  ELSE <<SubSeq(line, paren_start + 1, paren_end - 1)>>)
                     \o extract_markdown(line, start + 1)

\* while let Some(start) = remaining.find("src=\"") { .. find('"') .. }: the
\* closing quote may be the one that ends a later src=" or src='
RECURSIVE extract_src(_, _, _, _)
extract_src(line, from, open, quote) ==
    LET start == Find(line, from, {open})
    IN  IF start = 0 THEN <<>>
        ELSE LET quote_end == Find(line, start + 1, {quote, "src=" \o quote})
             IN  (IF quote_end = 0 THEN <<>>
                  ELSE <<SubSeq(line, start + 1, quote_end - 1)
                            \o (IF line[quote_end].kind = quote THEN <<>>
                                ELSE <<Text("src=")>>)>>)
                     \o extract_src(line, start + 1, open, quote)

extract_image_links(line) ==
    extract_markdown(line, 1)
        \o extract_src(line, 1, "src=\"", "\"")
        \o extract_src(line, 1, "src='", "'")

to_lowercase(ext) == IF ext = ".PNG" THEN ".png" ELSE ext

is_external_http_only(link) ==
    link # <<>> /\ link[1].kind = "link" /\ link[1].scheme \in {"http://"}
\* link.starts_with("http://") || link.starts_with("https://")
is_external(link) ==
    link # <<>> /\ link[1].kind = "link" /\ link[1].scheme \in {"http://", "https://"}

\* IMAGE_EXTENSIONS.iter().any(|ext| link.to_lowercase().contains(ext))
is_image(link) ==
    \E k \in DOMAIN link :
        link[k].kind = "link" /\ to_lowercase(link[k].ext) \in Range(IMAGE_EXTENSIONS)

\* "?key=" is in the text when key is the first key of a query string, "&key="
\* when it is a later one
has_cache_busting(link) ==
    \E p \in DOMAIN link :
        /\ link[p].kind = "link"
        /\ \/ link[p].query # <<>> /\ link[p].query[1] \in {"v", "ts", "t", "version", "hash"}
           \/ \E k \in 2..Len(link[p].query) : link[p].query[k] \in {"v", "ts"}

RECURSIVE check_readme_links(_, _, _, _)
check_readme_links(links, file_path, line_number, k) ==
    IF k > Len(links) THEN <<>>
    ELSE (IF /\ ~is_external(links[k])
             /\ is_image(links[k])
             /\ ~has_cache_busting(links[k])
          THEN <<with_fix(with_line(with_file(
                     CheckResult_fail("cache-busting", "Warning",
                         [fmt |-> "{file_name}: Image link without cache-busting: {link}",
                          file_name |-> file_path, link |-> links[k]]),
                     file_path), line_number),
                     [fmt |-> "Add cache-busting parameter: {}?v=<version> or {}?ts=<timestamp>",
                      link |-> links[k]])>>
          ELSE <<>>)
         \o check_readme_links(links, file_path, line_number, k + 1)

check_readme(f) ==
    IF ~f.read.ok
    THEN <<with_file(CheckResult_fail("cache-busting", "Warning",
               [fmt |-> "Read error: {e}", e |-> f.read.error]), f.name)>>
    ELSE LET lines == f.read.lines
             scanned[n \in 0..Len(lines)] ==
                 IF n = 0 THEN <<>>
                 ELSE scanned[n - 1]
                          \o check_readme_links(extract_image_links(lines[n]), f.name, n, 1)
         IN  IF scanned[Len(lines)] = <<>>
             THEN <<with_file(CheckResult_pass("cache-busting",
                        [fmt |-> "{file_name}: All image links have cache-busting",
                         file_name |-> f.name]), f.name)>>
             ELSE scanned[Len(lines)]

\* proj.readmes: the files found under the names README.md, readme.md and
\* Readme.md in that order, then the md files of docs; canonical is the path
\* canonicalize returns, the same for two names of one file
cache_busting_check(proj) ==
    LET candidates == proj.readmes
                          \o (IF proj.docs # None /\ proj.docs[1].read.ok
                              THEN SelectSeq(proj.docs[1].read.entries,
                                             LAMBDA e : e.name.ext = "md")
                              ELSE <<>>)
        visit[k \in 0..Len(candidates)] ==
            IF k = 0 THEN [results |-> <<>>, checked_files |-> {}]
            ELSE LET v == visit[k - 1]
                     f == candidates[k]
                 IN  IF f.canonical \notin v.checked_files
                     THEN [results |-> v.results \o check_readme(f),
                           checked_files |-> v.checked_files \cup {f.canonical}]
                     ELSE v
        results_ == visit[Len(candidates)].results
    IN  IF results_ = <<>>
        THEN <<CheckResult_pass("cache-busting", [fmt |-> "No markdown files with images found"])>>
        ELSE results_

(***************************************************************************)
(* commands/checks.rs: run_selected_checks.  The --only text is the        *)
(* sequence of its comma-separated segments, whitespace included.          *)
(***************************************************************************)
trim(segment) ==
    CASE segment = " test-quality" -> "test-quality"
      [] segment = "rust-edition " -> "rust-edition"
      [] OTHER -> segment

should_run_untrimmed(name) ==
    only = None \/ \E k \in DOMAIN only[1] : only[1][k] = name

should_run(name) ==
    only = None \/ \E k \in DOMAIN only[1] : trim(only[1][k]) = name

RunChecks ==
    /\ check_pc = "idle"
    /\ check_pc' = "rust-edition"
    /\ results' = <<>>
    /\ UNCHANGED <<config, only, project, walk, ran, output, previous, scanVars, hostVars, pingVars>>

RunCheck_prepending(name, found, next) ==
    /\ check_pc = name
    /\ results' = IF should_run(name) THEN found \o results ELSE results
    /\ ran' = IF should_run(name) THEN Append(ran, name) ELSE ran
    /\ check_pc' = next
    /\ UNCHANGED <<config, only, project, walk, output, previous, scanVars, hostVars, pingVars>>

RunCheck(name, found, next) ==
    /\ check_pc = name
    /\ results' = IF should_run(name) THEN results \o found ELSE results
    /\ ran' = IF should_run(name) THEN Append(ran, name) ELSE ran
    /\ check_pc' = next
    /\ UNCHANGED <<config, only, project, walk, output, previous, scanVars, hostVars, pingVars>>

RunRustEdition ==
    RunCheck("rust-edition", rust_edition_check(project, config.required_edition), "loc-limits")

RunLocLimits ==
    RunCheck("loc-limits",
             loc_limits_check(project, config.max_file_loc, config.warn_file_loc),
             "function-count")

RunFunctionCount ==
    RunCheck("function-count",
             function_count_check(project, config.max_functions_per_module), "module-count")

RunModuleCount ==
    RunCheck("module-count", module_count_check(project, config.max_modules_per_crate),
             "test-quality")

RunTestQuality ==
    RunCheck("test-quality", test_quality_check(project), "clippy-disables")

RunClippyDisables ==
    RunCheck("clippy-disables", clippy_disables_check(project), "cache-busting")

RunCacheBusting ==
    RunCheck("cache-busting", cache_busting_check(project), "output")

(***************************************************************************)
(* The projects and options of the run.                                    *)
(***************************************************************************)
CargoPath(dir) == Path(dir, "Cargo", "toml")

Manifests(dir) ==
    { UnreadableManifest(CargoPath(dir)),
      Manifest(CargoPath(dir), FALSE, Toml(Some(Package(Some("2021"))), FALSE)),
      Manifest(CargoPath(dir), TRUE, Toml(None, TRUE)) }

SrcTexts ==
    { << <<"#[allow(", "clippy::unwrap_used", ")", "]">>,
         <<FnKw, "f", "(", ")", "{">>, <<"}">> >>,
      << <<"#[allow(", "missing_docs", ")", "]">>, <<TestAttr>>,
         <<FnKw, "t1", "(", ")", "{">>, <<"assert!(true)">>, <<"}">> >> }

SrcEntries(dir, k) ==
    {File(Path(dir, Names[k], "rs"), t) : t \in SrcTexts}
        \cup { UnreadableFile(Path(dir, Names[k], "rs")),
               UnreadableDir(Path(dir, Names[k], "")),
               Dir(Path(dir, Names[k], ""),
                   <<File(Path(dir \o <<Names[k]>>, "mod", "rs"), <<>>)>>) }

SrcDirs(dir) ==
    UNION {{d \in [1..n -> UNION {SrcEntries(dir, k) : k \in 1..n}] :
                \A k \in 1..n : d[k] \in SrcEntries(dir, k)} : n \in 0..MaxFiles}

Srcs(dir) == {None} \cup {Some(Dir(Path(dir, "src", ""), d)) : d \in SrcDirs(dir \o <<"src">>)}

Member(name, cargo, src) == [kind |-> "dir", name |-> name, cargo |-> cargo, src |-> src]

ProjectEntries ==
    { [ok |-> FALSE, error |-> "Permission denied"],
      [ok |-> TRUE, entries |-> <<>>],
      [ok |-> TRUE, entries |->
          << Member("target",
                    Some(Manifest(CargoPath(<<"target">>), FALSE,
                                  Toml(Some(Package(None)), FALSE))),
                    None),
             Member("core",
                    Some(Manifest(CargoPath(<<"core">>), FALSE,
                                  Toml(Some(Package(Some("2021"))), FALSE))),
                    Some(Dir(Path(<<"core">>, "src", ""),
                             <<File(Path(<<"core", "src">>, "lib", "rs"), <<>>),
                               File(Path(<<"core", "src">>, "a", "rs"), <<>>)>>))) >>] }

Readme(stem, canonical, read) ==
    [kind |-> "file", name |-> Path(<<>>, stem, "md"), canonical |-> canonical, read |-> read]

Local(query) == Link("", ".png", query)

ReadmeSets ==
    { [readmes |-> <<>>, docs |-> None],
      [readmes |-> <<Readme("README", "README.md",
                            [ok |-> FALSE, error |-> "Permission denied"])>>,
       docs |-> None],
      [readmes |-> <<Readme("README", "README.md",
                            [ok |-> TRUE, lines |->
                                << ImageRef("![](", Local(<<"v">>))
                                       \o ImageRef("src=\"", Link("https://", ".png", <<>>)) >>]),
                     Readme("readme", "README.md",
                            [ok |-> TRUE, lines |-> <<>>])>>,
       docs |-> None],
      [readmes |-> <<>>,
       docs |-> Some(Dir(Path(<<>>, "docs", ""),
                         <<[kind |-> "file", name |-> Path(<<"docs">>, "guide", "md"),
                            canonical |-> "docs/guide.md",
                            read |-> [ok |-> TRUE, lines |->
                                << <<>>, ImageRef("![](", Local(<<>>))
                                            \o ImageRef("src='", Local(<<"w", "ts">>)) >>]]>>))] }

Projects ==
    {[name |-> "guardian", cargo |-> c, entries |-> e, src |-> s,
      readmes |-> r.readmes, docs |-> r.docs] :
        c \in {None} \cup {Some(m) : m \in Manifests(<<>>)},
        e \in ProjectEntries, s \in Srcs(<<>>), r \in ReadmeSets}

CheckConfig_strict ==
    [max_file_loc |-> 1, warn_file_loc |-> 0, max_functions_per_module |-> 0,
     max_modules_per_crate |-> 0, required_edition |-> "2024"]

Filters ==
    { None, Some(<<"loc-limits">>),
      Some(<<" test-quality", "rust-edition ", " test-quality">>),
      Some(<<"all">>) }

InitChecks ==
    /\ NoHosts
    /\ config \in {CheckConfig_default, CheckConfig_strict}
    /\ only \in Filters
    /\ project \in Projects
    /\ check_pc = "idle"
    /\ walk = <<>>
    /\ ran = <<>>
    /\ output = <<>>
    /\ previous = None
    /\ results = <<>>
    /\ content = <<>>
    /\ scan = <<>>
    /\ counted = {}

\* output::check_results: the JSON branch returns Ok(()) after printing, the
\* human branch exits with 1 when a failing result has severity Error
errors(rs) == Cardinality({i \in DOMAIN rs : ~rs[i].passed /\ rs[i].severity = "Error"})

check_results(rs, json_output) ==
    IF json_output THEN 0
    ELSE IF errors(rs) > 0 THEN 1 ELSE 0

CheckResults ==
    /\ check_pc = "output"
    /\ \E json_output \in BOOLEAN :
           output' = [json_output |-> json_output,
                      exit_code |-> check_results(results, json_output)]
    /\ check_pc' = "exit"
    /\ UNCHANGED <<config, only, project, walk, results, ran, previous, scanVars, hostVars, pingVars>>

NextChecks ==
    \/ RunChecks
    \/ RunRustEdition
    \/ RunLocLimits
    \/ RunFunctionCount
    \/ RunModuleCount
    \/ RunTestQuality
    \/ RunClippyDisables
    \/ RunCacheBusting
    \/ CheckResults

SpecChecks == InitChecks /\ [][NextChecks]_vars

\* C7: every result in the orchestrator's result sequence, whichever check
\* emitted it, has severity Info if it passed and Warning or Error if it
\* failed.
C7_SeverityMatchesOutcome ==
    \A i \in DOMAIN results :
        /\ results[i].passed => results[i].severity = "Info"
        /\ ~results[i].passed => results[i].severity \in {"Warning", "Error"}

\* a complete unfiltered run in which all seven checks reported, with passes,
\* Warning failures and Error failures among the results
C7_Witness ==
    /\ check_pc = "output"
    /\ only = None
    /\ {results[i].check_name : i \in DOMAIN results} =
           {"rust-edition", "loc-limits", "function-count", "module-count",
            "test-quality", "clippy-disables", "cache-busting"}
    /\ \E i \in DOMAIN results : results[i].passed
    /\ \E i \in DOMAIN results : IsWarning(results[i])
    /\ \E i \in DOMAIN results : IsError(results[i])

(***************************************************************************)
(* check_readme applied to a markdown file whose lines each hold one image *)
(* reference, or nothing.                                                  *)
(***************************************************************************)
MaxMdLines == 2

Syntaxes == {"![](", "src=\"", "src='"}

RecognizedKeys == {"v", "ts", "t", "version", "hash"}
Queries ==
    {<<>>, <<"w">>} \cup {<<k>> : k \in RecognizedKeys} \cup {<<"w", k>> : k \in RecognizedKeys}

\* links written in each of the three syntaxes
MdLinksEverySyntax ==
    {Link("", ".png", q) : q \in {<<>>, <<"v">>, <<"w", "hash">>}}
        \cup {Link(sch, ".png", q) : sch \in {"http://", "https://"}, q \in {<<>>, <<"w">>}}
        \cup {Link("", e, <<>>) : e \in {".PNG", ".txt"}}

MdLinks == MdLinksEverySyntax \cup {Link("", ".png", q) : q \in Queries}

MdLines ==
    {<<>>} \cup {ImageRef(syn, l) : syn \in Syntaxes, l \in MdLinksEverySyntax}
        \cup {ImageRef("![](", l) : l \in MdLinks}

MdFiles == UNION {[1..n -> MdLines] : n \in 0..MaxMdLines}

MdPath == Path(<<>>, "README", "md")

CheckReadme ==
    /\ check_pc = "idle"
    /\ results' = check_readme(File(MdPath, content))
    /\ check_pc' = "done"
    /\ UNCHANGED <<config, only, project, walk, ran, output, previous, scanVars, hostVars, pingVars>>

InitCb ==
    /\ NoHosts
    /\ config = <<>>
    /\ only = None
    /\ project = <<>>
    /\ check_pc = "idle"
    /\ walk = <<>>
    /\ ran = <<>>
    /\ output = <<>>
    /\ previous = None
    /\ results = <<>>
    /\ content \in MdFiles
    /\ scan = <<>>
    /\ counted = {}

NextCb == CheckReadme

SpecCb == InitCb /\ [][NextCb]_vars

\* the image references written in the checked file: line, syntax and link
Written ==
    IF check_pc = "done" /\ config = <<>> /\ project = <<>> /\ scan = <<>>
    THEN {w \in [line : DOMAIN content, syntax : Syntaxes, link : MdLinks] :
             content[w.line] = ImageRef(w.syntax, w.link)}
    ELSE {}

FlaggedAt(n, l) ==
    \E i \in DOMAIN results :
        /\ IsWarning(results[i])
        /\ results[i].check_name = "cache-busting"
        /\ results[i].line = Some(n)
        /\ results[i].message.link = <<l>>

FailedAt(n, l) ==
    \E i \in DOMAIN results :
        /\ ~results[i].passed
        /\ results[i].line = Some(n)
        /\ results[i].message.link = <<l>>

IsLocalImage(l) == l.scheme = "" /\ l.ext \in {".png", ".PNG"}

\* C11: in each of the three syntaxes, ./img.png?v=1 is compliant, ./img.png
\* gets a Warning failure, and a reference beginning with http:// or https://
\* gets no failure whatever its query string.
C11_VersionQueryAndExternal ==
    \A w \in Written :
        /\ w.link = Link("", ".png", <<"v">>) => ~FailedAt(w.line, w.link)
        /\ w.link = Link("", ".png", <<>>) => FlaggedAt(w.line, w.link)
        /\ w.link.scheme \in {"http://", "https://"} => ~FailedAt(w.line, w.link)

\* a file with ./img.png in an HTML attribute (flagged) above an https image
\* without a query in markdown syntax (not flagged)
C11_Witness ==
    /\ \E w \in Written :
        w.syntax = "src='" /\ w.link = Link("", ".png", <<>>) /\ FlaggedAt(w.line, w.link)
    /\ \E w \in Written :
        w.syntax = "![](" /\ w.link = Link("https://", ".png", <<>>) /\ ~FailedAt(w.line, w.link)
    /\ Len(results) = 1

\* C12: a local image reference is compliant exactly when its query string
\* holds one of the keys v, ts, t, version, hash, as the first parameter or as
\* an appended one; a reference with none of them is flagged.
C12_AnyRecognizedKeyComplies ==
    \A w \in Written :
        IsLocalImage(w.link) =>
            (~FlaggedAt(w.line, w.link) <=>
                \E k \in DOMAIN w.link.query : w.link.query[k] \in RecognizedKeys)

(***************************************************************************)
(* rust_edition::check over a project directory: a root manifest or none,  *)
(* and up to MaxMembers subdirectories, ignored or not, each with a        *)
(* manifest or none.                                                       *)
(***************************************************************************)
MaxMembers == 2

Editions == {"2021", "2024"}

Tomls ==
    {InvalidToml}
        \cup {Toml(pkg, ws) :
                pkg \in {None, Some(Package(None))} \cup {Some(Package(Some(ed))) : ed \in Editions},
                ws \in BOOLEAN}

EditionManifests(dir) ==
    {UnreadableManifest(CargoPath(dir))}
        \cup {Manifest(CargoPath(dir), t.ok /\ t.workspace, t) : t \in Tomls}

IgnoredNames == <<"target", ".git", "node_modules", ".cargo">>

MemberManifests(dir) ==
    { UnreadableManifest(CargoPath(dir)),
      Manifest(CargoPath(dir), FALSE, InvalidToml),
      Manifest(CargoPath(dir), FALSE, Toml(Some(Package(Some("2021"))), FALSE)),
      Manifest(CargoPath(dir), FALSE, Toml(Some(Package(None)), FALSE)),
      Manifest(CargoPath(dir), TRUE, Toml(None, TRUE)) }

EditionMembers(k) ==
    UNION {{Member(n, c, None) : c \in {None} \cup {Some(m) : m \in MemberManifests(<<n>>)}} :
              n \in {Names[k], IgnoredNames[k]}}

RECURSIVE EditionMemberSeqs(_)
EditionMemberSeqs(n) ==
    IF n = 0 THEN {<<>>}
    ELSE {Append(d, m) : d \in EditionMemberSeqs(n - 1), m \in EditionMembers(n)}

EditionEntries ==
    {[ok |-> FALSE, error |-> "Permission denied"]}
        \cup UNION {{[ok |-> TRUE, entries |-> d] : d \in EditionMemberSeqs(n)} :
                       n \in 0..MaxMembers}

EditionProjects ==
    {[name |-> "guardian", cargo |-> c, entries |-> en] :
        c \in {None} \cup {Some(m) : m \in EditionManifests(<<>>)}, en \in EditionEntries}

RustEdition ==
    /\ check_pc = "idle"
    /\ results' = rust_edition_check(project, config.required_edition)
    /\ check_pc' = "done"
    /\ UNCHANGED <<config, only, project, walk, ran, output, previous, scanVars, hostVars, pingVars>>

InitEdition ==
    /\ NoHosts
    /\ config \in {[CheckConfig_default EXCEPT !.required_edition = ed] : ed \in Editions}
    /\ only = None
    /\ project \in EditionProjects
    /\ check_pc = "idle"
    /\ walk = <<>>
    /\ ran = <<>>
    /\ output = <<>>
    /\ previous = None
    /\ results = <<>>
    /\ content = <<>>
    /\ scan = <<>>
    /\ counted = {}

NextEdition == RustEdition

SpecEdition == InitEdition /\ [][NextEdition]_vars

\* the manifests of the project: the root's, then those of the
\* subdirectories that are not ignored, in directory order
Discovered ==
    LET members == IF project.entries.ok THEN project.entries.entries ELSE <<>>
        kept == SelectSeq(members, LAMBDA m : ~is_ignored_dir(m.name) /\ m.cargo # None)
    IN  project.cargo \o [k \in DOMAIN kept |-> kept[k].cargo[1]]

DeclaredEdition(m) ==
    IF m.read.toml.package = None THEN None ELSE m.read.toml.package[1].edition

\* what the edition check owes a manifest that was read
EditionVerdict(m, r) ==
    LET required == config.required_edition
    IN  IF ~m.read.toml.ok THEN IsError(r)
        ELSE IF DeclaredEdition(m) = Some(required) THEN IsPass(r)
        ELSE IF DeclaredEdition(m) # None
        THEN /\ IsError(r)
             /\ r.fix # None
             /\ r.fix[1].e = DeclaredEdition(m)[1]
             /\ r.fix[1].required = required
        ELSE IF m.read.toml.workspace /\ m.read.toml.package = None THEN IsPass(r)
        ELSE IsError(r)

\* C13: one result per discovered manifest: Pass when the package edition is
\* the required one, Error with the literal replacement in the fix when it
\* differs, Error when none is declared unless the manifest has a workspace
\* section and no package section (Pass), Error when it does not parse; a
\* single Warning failure when no manifest is found.
C13_OneResultPerManifest ==
    check_pc = "done" =>
        IF Discovered = <<>>
        THEN Len(results) = 1 /\ IsWarning(results[1])
        ELSE /\ Len(results) = Len(Discovered)
             /\ \A k \in DOMAIN Discovered :
                    /\ Cardinality(ResultsFor(Discovered[k])) = 1
                    /\ ResultsFor(Discovered[k]) = {k}
                    /\ Discovered[k].read.ok => EditionVerdict(Discovered[k], results[k])

\* a workspace root without package section passes, next to an ignored
\* directory and a member on another edition whose fix names both editions
C13_Witness ==
    /\ check_pc = "done"
    /\ Len(Discovered) = 2
    /\ project.cargo # None /\ project.cargo[1].read.ok /\ project.cargo[1].read.toml.ok
    /\ project.cargo[1].read.toml.workspace /\ project.cargo[1].read.toml.package = None
    /\ IsPass(results[1])
    /\ IsError(results[2]) /\ results[2].fix # None
    /\ results[2].fix[1].fmt = "Change edition = \"{e}\" to edition = \"{required}\""
    /\ \E k \in DOMAIN project.entries.entries :
           is_ignored_dir(project.entries.entries[k].name) /\ project.entries.entries[k].cargo # None

(***************************************************************************)
(* The same suite run a second time over the same project, configuration   *)
(* and filter: the process has exited and is started again.                *)
(***************************************************************************)
RunChecksAgain_keeping_results ==
    /\ check_pc = "exit"
    /\ previous = None
    /\ previous' = Some(results)
    /\ check_pc' = "rust-edition"
    /\ ran' = <<>>
    /\ output' = <<>>
    /\ UNCHANGED <<config, only, project, walk, results, scanVars, hostVars, pingVars>>

RunChecksAgain ==
    /\ check_pc = "exit"
    /\ previous = None
    /\ previous' = Some(results)
    /\ check_pc' = "rust-edition"
    /\ results' = <<>>
    /\ ran' = <<>>
    /\ output' = <<>>
    /\ UNCHANGED <<config, only, project, walk, scanVars, hostVars, pingVars>>

InitRerun ==
    /\ InitChecks
    /\ config = CheckConfig_strict
    /\ only \in {None, Some(<<" test-quality", "rust-edition ", " test-quality">>)}
    /\ project.entries.ok

NextRerun ==
    \/ NextChecks
    \/ RunChecksAgain

SpecRerun == InitRerun /\ [][NextRerun]_vars

\* the names run_selected_checks tests, in the order it tests them
CheckOrder ==
    <<"rust-edition", "loc-limits", "function-count", "module-count",
      "test-quality", "clippy-disables", "cache-busting">>

CheckNames == Range(CheckOrder)

\* the names the filter holds once trimmed; every name when there is no filter
Named == IF only = None THEN CheckNames ELSE {trim(only[1][k]) : k \in DOMAIN only[1]}

RunOver == check_pc \in {"output", "exit"}

\* C14: the results are of named checks only, each named known check has run
\* exactly once even when named twice, all seven run without a filter, and a
\* name that matches no check yields no result and no error.
C14_FilterSelectsChecks ==
    RunOver =>
        /\ \A i \in DOMAIN results : results[i].check_name \in Named \cap CheckNames
        /\ Range(ran) = Named \cap CheckNames
        /\ \A j, k \in DOMAIN ran : ran[j] = ran[k] => j = k
        /\ only = None => Len(ran) = 7
        /\ Named \cap CheckNames = {} => results = <<>>
        /\ (check_pc = "exit" /\ Named \cap CheckNames = {}) => output.exit_code = 0

\* a filter naming test-quality twice, with blanks around the names
C14_Witness ==
    /\ check_pc = "exit"
    /\ only = Some(<<" test-quality", "rust-edition ", " test-quality">>)
    /\ ran = <<"rust-edition", "test-quality">>
    /\ \E i \in DOMAIN results : results[i].check_name = "test-quality"
    /\ \E i \in DOMAIN results : results[i].check_name = "rust-edition"

Rank(name) == CHOOSE k \in DOMAIN CheckOrder : CheckOrder[k] = name

\* the claim's grouping: manifest level, per file, documentation
Level(name) ==
    CASE name \in {"rust-edition", "module-count"} -> 1
      [] name \in {"loc-limits", "function-count", "test-quality", "clippy-disables"} -> 2
      [] name = "cache-busting" -> 3

Contiguous ==
    \A i, j, k \in DOMAIN results :
        (i < j /\ j < k /\ results[i].check_name = results[k].check_name)
            => results[j].check_name = results[i].check_name

\* C15 as stated: the results of the manifest-level checks (edition, module
\* count) come first, then those of the per-file checks, then those of the
\* documentation check, the results of one check being contiguous.
C15_ManifestChecksFirst ==
    RunOver =>
        /\ \A i, j \in DOMAIN results :
               i < j => Level(results[i].check_name) <= Level(results[j].check_name)
        /\ Contiguous

\* C15: the results are ordered by check in the one fixed order rust-edition,
\* loc-limits, function-count, module-count, test-quality, clippy-disables,
\* cache-busting, whatever the order of the names in the filter, and the
\* results of one check are contiguous.
C15_FixedCheckOrder ==
    RunOver =>
        /\ \A i, j \in DOMAIN results :
               i < j => Rank(results[i].check_name) <= Rank(results[j].check_name)
        /\ Contiguous

\* module-count results after function-count results in an unfiltered run
C15_Witness ==
    /\ check_pc = "output"
    /\ only = None
    /\ \E i, j \in DOMAIN results :
           /\ i < j
           /\ results[i].check_name = "function-count"
           /\ results[j].check_name = "module-count"
    /\ \E i \in DOMAIN results : results[i].check_name = "cache-busting"

C17_ExitCodeFollowsErrors ==
    check_pc = "exit" =>
        (output.exit_code # 0 <=> \E i \in DOMAIN results : IsError(results[i]))

(***************************************************************************)
(* clippy_disables::check_file, line by line, over a readable file of up   *)
(* to MaxSuppressLines lines.                                              *)
(***************************************************************************)
MaxSuppressLines == 4

SuppressLines ==
    { <<FnKw, "f", "(", ")", "{", "}">>,
      <<"#[allow(", "dead_code", ")", "]">>,
      <<"#[allow(", "unused_variables", ")", "]">>,
      <<"#[allow(", "clippy::unwrap_used", ")", "]">>,
      <<"#[allow(", "clippy::unused_self", ")", "]">>,
      <<"#![allow(", "missing_docs", ")", "]">>,
      <<"#[allow(", "dead_code", ",", "clippy::unwrap_used", ")", "]">>,
      <<"#[cfg_attr(", "test", ",", "allow(", "clippy::unwrap_used", ")", ")", "]">>,
      <<"#[cfg_attr(", "test", ",", "inline", ")", "]">>,
      <<"#[cfg_attr(", "test", ",", "allow(", "missing_docs", ")", ")", "]",
        "#[allow(", "clippy::unwrap_used", ")", "]">>,
      <<"//", "#[allow(", "clippy::unwrap_used", ")", "]">>,
      <<"let", RawOpen>>,
      <<RawClose>> }

SuppressPath == Path(<<"src">>, Names[1], "rs")

ClippyCheckFile ==
    /\ check_pc = "idle"
    /\ check_pc' = "check_file"
    /\ scan' = clippy_disables_init
    /\ UNCHANGED <<config, only, project, walk, ran, output, previous, results, content, counted, hostVars, pingVars>>

ClippyCheckFileLine ==
    /\ check_pc = "check_file"
    /\ Len(content) < MaxSuppressLines
    /\ \E line \in SuppressLines :
        /\ content' = Append(content, line)
        /\ scan' = clippy_disables_line(scan, line, SuppressPath, Len(content'))
    /\ UNCHANGED <<checkVars, counted, hostVars, pingVars>>

ClippyCheckFileReturn ==
    /\ check_pc = "check_file"
    /\ check_pc' = "done"
    /\ results' = clippy_disables_file_results(scan.results, SuppressPath)
    /\ UNCHANGED <<config, only, project, walk, ran, output, previous, scanVars, hostVars, pingVars>>

InitClippy ==
    /\ NoHosts
    /\ ChecksIdle

NextClippy == ClippyCheckFile \/ ClippyCheckFileLine \/ ClippyCheckFileReturn

SpecClippy == InitClippy /\ [][NextClippy]_vars

\* the suppression directives of the file's code lines (not a comment, not
\* inside a raw string): the line, where the lint list opens, the lints named
Directives ==
    LET raw == RawLines(content)
    IN  UNION {{[line |-> n, at |-> i] :
                   i \in {i \in DOMAIN content[n] : content[n][i] \in AllowTokens}} :
               n \in {n \in DOMAIN content : n \notin raw /\ ~StartsWith(content[n], {"//"})}}

LintsOf(d) ==
    LET line == content[d.line]
        close == CHOOSE j \in (d.at + 1)..Len(line) :
                     line[j] = ")" /\ \A k \in (d.at + 1)..(j - 1) : line[k] # ")"
    IN  {line[k] : k \in (d.at + 1)..(close - 1)} \ {","}

ClippyNamespaced == {"clippy::unwrap_used", "clippy::unused_self"}

ReportsAt(n) == {i \in DOMAIN results : results[i].line = Some(n)}

Checked == check_pc = "done" /\ scan # <<>> /\ "in_raw_string" \in DOMAIN scan

\* every reported line whose first directive names a clippy lint first is an
\* Error, every other reported line a Warning
C18_ReportedSeverity ==
    Checked =>
        LET directives == Directives
        IN  \A i \in DOMAIN results :
                results[i].line # None =>
                    LET n == results[i].line[1]
                        first == CHOOSE d \in directives :
                                     d.line = n /\ \A e \in directives : e.line = n => d.at <= e.at
                    IN  IF content[n][first.at + 1] \in ClippyNamespaced
                        THEN IsError(results[i]) ELSE IsWarning(results[i])

\* every directive that names a clippy lint is reported as an Error
C18_ClippyDirectiveIsError ==
    Checked =>
        \A d \in Directives :
            LintsOf(d) \cap ClippyNamespaced # {} =>
                \E i \in ReportsAt(d.line) : IsError(results[i])

\* C18: a reported suppression is an Error when its lint identifier starts
\* with clippy:: and a Warning otherwise, and every suppression directive
\* whose identifier is clippy-namespaced is reported as an Error.
C18_ClippySuppressionIsError ==
    C18_ReportedSeverity /\ C18_ClippyDirectiveIsError

\* C19: a suppression directive on a code line goes unreported only when its
\* lint is one of dead_code, unused; a directive naming any other lint, alone
\* or next to an allow-listed one, is reported.
C19_OnlyAllowListUnreported ==
    Checked =>
        \A d \in Directives :
            ~(LintsOf(d) \subseteq Range(ALLOWED_SUPPRESSIONS)) => ReportsAt(d.line) # {}

\* C20: the file gets exactly one Pass, or failing results only, one per
\* offending line and carrying its 1-based number; never two results for
\* one line, never a Pass next to a failure.
C20_OneResultPerOffendingLine ==
    Checked =>
        \/ Len(results) = 1 /\ IsPass(results[1])
        \/ /\ results # <<>>
           /\ \A i \in DOMAIN results :
                  /\ ~results[i].passed
                  /\ results[i].line # None
                  /\ results[i].line[1] \in DOMAIN content
                  /\ \E d \in Directives : d.line = results[i].line[1]
                  /\ ReportsAt(results[i].line[1]) = {i}

(***************************************************************************)
(* The check run over projects whose src tree holds nested directories,    *)
(* directories with ignored names, unreadable entries and files that end   *)
(* inside a raw string or a block.                                         *)
(***************************************************************************)
MaxWalkEntries == 2
MaxModules == 1

WalkTexts ==
    { << <<"#[allow(", "clippy::unwrap_used", ")", "]">>,
         <<FnKw, "f", "(", ")", "{">>, <<"}">> >>,
      << <<TestAttr>>, <<FnKw, "t1", "(", ")", "{">>, <<"let", RawOpen>> >> }

CleanText == << <<FnKw, "f", "(", ")", "{", "}">> >>

EntryPoints == <<"lib", "main", "mod", "lib", "main">>

SubEntries(dir) ==
    { <<>>,
      <<File(Path(dir, "mod", "rs"), CleanText)>>,
      <<File(Path(dir, "x", "rs"), CleanText),
        Dir(Path(dir, ".git", ""),
            <<File(Path(dir \o <<".git">>, "h", "rs"), CleanText)>>)>> }

WalkEntries(dir, k) ==
    {File(Path(dir, Names[k], "rs"), t) : t \in WalkTexts}
        \cup { File(Path(dir, EntryPoints[k], "rs"), CleanText),
               UnreadableFile(Path(dir, Names[k], "rs")),
               UnreadableDir(Path(dir, Names[k], "")) }
        \cup UNION {{Dir(Path(dir, n, ""), sub) : sub \in SubEntries(dir \o <<n>>)} :
                       n \in {Names[k], IgnoredNames[k]}}

RECURSIVE WalkEntrySeqs(_, _)
WalkEntrySeqs(dir, n) ==
    IF n = 0 THEN {<<>>}
    ELSE {Append(d, en) : d \in WalkEntrySeqs(dir, n - 1), en \in WalkEntries(dir, n)}

WalkSrcs(dir) ==
    {None} \cup UNION {{Some(Dir(Path(dir, "src", ""), d)) : d \in WalkEntrySeqs(dir \o <<"src">>, n)} :
                          n \in 0..MaxWalkEntries}

WalkMembers ==
    { [ok |-> TRUE, entries |-> <<>>],
      [ok |-> TRUE, entries |->
          << Member("target",
                    Some(Manifest(CargoPath(<<"target">>), FALSE,
                                  Toml(Some(Package(None)), FALSE))),
                    Some(Dir(Path(<<"target">>, "src", ""),
                             <<File(Path(<<"target", "src">>, "gen", "rs"), CleanText)>>))),
             Member("core", None,
                    Some(Dir(Path(<<"core">>, "src", ""),
                             <<File(Path(<<"core", "src">>, "lib", "rs"), CleanText),
                               File(Path(<<"core", "src">>, "a", "rs"), CleanText)>>))) >>] }

WalkProjects ==
    {[name |-> "guardian", cargo |-> c, entries |-> en, src |-> sr,
      readmes |-> <<>>, docs |-> None] :
        c \in {None, Some(UnreadableManifest(CargoPath(<<>>))),
               Some(Manifest(CargoPath(<<>>), TRUE, Toml(None, TRUE)))},
        en \in WalkMembers, sr \in WalkSrcs(<<>>)}

InitWalk ==
    /\ NoHosts
    /\ config \in {[CheckConfig_strict EXCEPT !.max_modules_per_crate = m] : m \in 0..MaxModules}
    /\ only = None
    /\ project \in WalkProjects
    /\ check_pc = "idle"
    /\ walk = <<>>
    /\ ran = <<>>
    /\ output = <<>>
    /\ previous = None
    /\ results = <<>>
    /\ content = <<>>
    /\ scan = <<>>
    /\ counted = {}

SpecWalk == InitWalk /\ [][NextChecks]_vars

\* the path lies under a directory with an ignored name
UnderIgnored(path) == \E k \in DOMAIN path.dir : is_ignored_dir(path.dir[k])

PerFileChecks == {"loc-limits", "function-count", "test-quality", "clippy-disables"}

\* no rust-edition or module-count result is about a manifest or a src
\* directory under an ignored directory
C21_ManifestChecksSkipIgnored ==
    RunOver =>
        \A i \in DOMAIN results :
            (results[i].check_name \in {"rust-edition", "module-count"} /\ results[i].file # None)
                => ~UnderIgnored(results[i].file[1])

\* C21: the per-file checks emit no result for a source file under a
\* directory named target, .git, node_modules or .cargo, at any depth, and
\* the manifest-level checks do not inspect such directories.
C21_WalksIgnoreDirectories ==
    RunOver =>
        /\ \A i \in DOMAIN results :
               (results[i].check_name \in PerFileChecks /\ results[i].file # None)
                   => ~UnderIgnored(results[i].file[1])
        /\ C21_ManifestChecksSkipIgnored

\* the directories below dir that the walk meets
RECURSIVE Directories(_)
Directories(dir) ==
    IF ~dir.read.ok THEN {}
    ELSE UNION {IF e.kind = "dir" THEN {e} \cup Directories(e) ELSE {}
                : e \in Range(dir.read.entries)}

WalkFiles == IF project.src = None THEN {} ELSE SourceFiles(project.src[1])
WalkDirectories == IF project.src = None THEN {} ELSE Directories(project.src[1])

ResultsOf(check, path) ==
    {i \in DOMAIN results : results[i].check_name = check /\ results[i].file = Some(path)}

\* every per-file check reports a file it cannot read as a Warning failure
\* for that file
C22_UnreadableFileWarned ==
    RunOver =>
        \A f \in WalkFiles : \A c \in PerFileChecks :
            ~f.read.ok =>
                /\ Cardinality(ResultsOf(c, f.name)) = 1
                /\ \A i \in ResultsOf(c, f.name) : IsWarning(results[i])

\* the run is neither aborted nor truncated: every check has run, every
\* file of the walk has a result of every per-file check
C22_RunNotTruncated ==
    RunOver =>
        /\ ran = CheckOrder
        /\ \A f \in WalkFiles : \A c \in PerFileChecks : ResultsOf(c, f.name) # {}
        /\ \E i \in DOMAIN results : results[i].check_name = "cache-busting"

\* every directory the walk cannot read is reported as a Warning failure
C22_UnreadableDirectoryWarned ==
    RunOver =>
        \A d \in WalkDirectories :
            ~d.read.ok =>
                \E i \in DOMAIN results : IsWarning(results[i]) /\ results[i].file = Some(d.name)

\* C22: an unreadable file or directory met during a walk is surfaced as a
\* Warning failure scoped to it, and the run is never aborted or truncated.
C22_UnreadableEntriesSurfaced ==
    /\ C22_UnreadableFileWarned
    /\ C22_UnreadableDirectoryWarned
    /\ C22_RunNotTruncated

(***************************************************************************)
(* The three line scanners (count_functions, analyze_file, check_file of   *)
(* clippy_disables) reading the same file, line by line.                   *)
(***************************************************************************)
MaxScanLines == 4

ScanLines ==
    { <<"let", RawOpen>>,
      <<RawClose>>,
      <<FnKw, "t1", "(", ")", "{">>,
      <<"}">>,
      <<TestAttr>>,
      <<CfgTest>>,
      <<"assert!(true)">>,
      <<"#[allow(", "clippy::unwrap_used", ")", "]">>,
      <<FnKw, "t2", "(", ")", "{", "assert!(true)", RawOpen, "x", RawClose>>,
      <<"#[allow(", "clippy::unwrap_used", ")", "]", RawClose, RawOpen>> }

ScanPath == Path(<<"src">>, Names[1], "rs")

Scanners == {"count_functions", "analyze_file", "check_file"}

ScanFile ==
    /\ check_pc = "idle"
    /\ check_pc' = "scan"
    /\ scan' = [count_functions |-> count_functions_init,
                analyze_file |-> analyze_file_init,
                check_file |-> clippy_disables_init]
    /\ UNCHANGED <<config, only, project, walk, ran, output, previous, results, content, counted, hostVars, pingVars>>

ScanLine ==
    /\ check_pc = "scan"
    /\ Len(content) < MaxScanLines
    /\ \E line \in ScanLines :
        /\ content' = Append(content, line)
        /\ scan' = [count_functions |-> count_functions_line(scan.count_functions, line),
                    analyze_file |-> analyze_file_line(scan.analyze_file, line, ScanPath, Len(content')),
                    check_file |-> clippy_disables_line(scan.check_file, line, ScanPath, Len(content'))]
    /\ UNCHANGED <<checkVars, counted, hostVars, pingVars>>

InitScan ==
    /\ NoHosts
    /\ ChecksIdle

NextScan == ScanFile \/ ScanLine

SpecScan == InitScan /\ [][NextScan]_vars

\* a scanner step: the line it reads
Scanning == check_pc = "scan" /\ check_pc' = "scan" /\ Len(content') = Len(content) + 1
LineRead == content'[Len(content')]

\* the scanner's variables other than the raw-string flag are as before
Untouched(k) == [scan'[k] EXCEPT !.in_raw_string = scan[k].in_raw_string] = scan[k]

\* C23: a line that opens a raw string without closing it puts each scanner
\* in the raw-string state, where it stays on every following line until a
\* line containing the closing marker; a line scanned in that state changes
\* no count, brace depth, test scope or finding.
C23_RawStringStatePersists ==
    [][Scanning =>
        \A k \in Scanners :
            /\ (Contains(LineRead, RawOpen) /\ ~Contains(LineRead, RawClose))
                   => scan'[k].in_raw_string
            /\ scan[k].in_raw_string =>
                   /\ scan'[k].in_raw_string <=> ~Contains(LineRead, RawClose)
                   /\ Untouched(k)]_vars

\* a raw string opened on line 1 and still open after four lines that hold a
\* function, a test marker and a suppression
C23_Witness ==
    /\ check_pc = "scan"
    /\ Len(content) = 4
    /\ content[1] = <<"let", RawOpen>>
    /\ content[2] = <<FnKw, "t1", "(", ")", "{">>
    /\ content[3] = <<"#[allow(", "clippy::unwrap_used", ")", "]">>
    /\ content[4] = <<"assert!(true)">>
    /\ \A k \in Scanners : scan[k].in_raw_string
    /\ scan.count_functions.count = 0
    /\ scan.check_file.results = <<>>

\* the modules of a crate's source directory: the source files directly in
\* it that are no entry point, and the immediate subdirectories that hold
\* mod.rs or a source file
ModulesOf(src_dir) ==
    IF ~src_dir.read.ok THEN {}
    ELSE {e \in Range(src_dir.read.entries) :
             \/ e.kind = "file" /\ e.name.ext = "rs" /\ e.name.stem \notin {"main", "lib", "mod"}
             \/ /\ e.kind = "dir"
                /\ e.read.ok
                /\ \E f \in Range(e.read.entries) : f.name.ext = "rs"}

\* the source directories of the project's crates, in the order module-count
\* reports them
Crates ==
    LET own == IF project.src = None THEN <<>> ELSE project.src
        workspace == /\ project.cargo # None
                     /\ project.cargo[1].read.ok
                     /\ project.cargo[1].read.has_workspace_text
        members == IF workspace /\ project.entries.ok
                   THEN SelectSeq(project.entries.entries,
                                  LAMBDA m : ~is_ignored_dir(m.name) /\ m.src # None)
                   ELSE <<>>
    IN  own \o [k \in DOMAIN members |-> members[k].src[1]]

ModuleCountResults == SelectSeq(results, LAMBDA r : r.check_name = "module-count")

C25_EachHostProbedAtMostOnce ==
    /\ \A j, k \in 1..Len(probes) :
          j < k => /\ probes[j].host # probes[k].host
                   /\ Before(probes[j].host, probes[k].host)
    /\ Len(probes) <= Cardinality(Enabled)
    /\ (Automatic /\ selected # 0) =>
          \A g \in Enabled : Before(selected, g) => ~Probed(g)

\* ask without a host name on three primaries: the first is down, the second
\* answers and is selected, the third is never probed
C25_Witness ==
    /\ cmd = "ask" /\ pc = "done"
    /\ args.host_name = None
    /\ Len(hosts) = 3 /\ Primaries = {1, 2, 3}
    /\ probes = <<[host |-> 1, reachable |-> FALSE], [host |-> 2, reachable |-> TRUE]>>
    /\ selected = 2
    /\ ~Probed(3)
    /\ generated # <<>>

\* C26 (second half): a disabled host is never used for text generation.
C26_DisabledNeverGenerates ==
    \A k \in DOMAIN generated : generated[k].host \in Enabled

\* C26: in the ask and evaluate flows every text-generation request to a host
\* is preceded, in the same flow, by a probe of that host that answered
\* reachable, whether the host was chosen automatically or by name; and a
\* disabled host is never used for generation.
C26_GenerationPrecededByProbe ==
    /\ \A k \in DOMAIN generated : AnsweredReachable(generated[k].host)
    /\ C26_DisabledNeverGenerates

\* a project that holds nothing but the one source file
Alone(f) ==
    [name |-> "guardian", cargo |-> None, entries |-> [ok |-> TRUE, entries |-> <<>>],
     src |-> Some(Dir(Path(<<>>, "src", ""), <<f>>)), readmes |-> <<>>, docs |-> None]

\* what the run reports about one file under one check, in order
ReportedOn(check, path) ==
    SelectSeq(results, LAMBDA r : r.check_name = check /\ r.file = Some(path))

\* the file stops inside a raw string, inside a #[test] function and with
\* an open brace
LeftOpen(f) ==
    /\ f.read.ok
    /\ Contains(f.read.lines[Len(f.read.lines)], RawOpen)
    /\ Contains(f.read.lines[1], TestAttr)

\* C27: every scanner starts each file from its initial state: what a run
\* reports about a file is what the same check reports on that file alone,
\* whatever was scanned before it, also after a file that ends inside a raw
\* string or with unbalanced braces.
C27_ScannerStatePerFile ==
    RunOver =>
        \A f \in WalkFiles :
            /\ ReportedOn("function-count", f.name)
                  = function_count_check(Alone(f), config.max_functions_per_module)
            /\ ReportedOn("test-quality", f.name) = test_quality_check(Alone(f))
            /\ ReportedOn("clippy-disables", f.name) = clippy_disables_check(Alone(f))

\* a file left inside a raw string and a test function is followed in the
\* walk by a file with a lint suppression and a function, for which the run
\* reports the function and the suppression
C27_Witness ==
    /\ RunOver
    /\ project.src # None
    /\ LET entries == project.src[1].read.entries
       IN  /\ Len(entries) = 2
           /\ entries[1].kind = "file" /\ LeftOpen(entries[1])
           /\ entries[2].kind = "file" /\ entries[2].read.ok
           /\ Contains(entries[2].read.lines[1], "#[allow(")
           /\ \E i \in DOMAIN results :
                 /\ results[i].check_name = "function-count"
                 /\ results[i].file = Some(entries[2].name)
                 /\ results[i].message.function_count = 1
           /\ \E i \in DOMAIN results :
                 /\ results[i].check_name = "clippy-disables"
                 /\ results[i].file = Some(entries[2].name)
                 /\ ~results[i].passed

(***************************************************************************)
(* The function-count limit: trees of files with zero, one and two         *)
(* function lines, checked under max_functions from 0 to MaxFunctions.     *)
(* The texts hold a comment line with a function introducer, a line that   *)
(* matches several of fn_patterns ("fn ", "async fn ", "pub async fn ")    *)
(* and a line where "fn " occurs twice.                                    *)
(***************************************************************************)
MaxFunctions == 2
MaxFnFiles == 2

FnLimitTexts ==
    { << <<"//", FnKw, "g", "(", ")", "{", "}">> >>,
      << <<"pub ", "async ", FnKw, "f", "(", ")", "{", "}">> >>,
      << <<FnKw, "f", "(", "g", ":", FnKw, "(", ")", ")", "{", "}">>,
         <<"/*", FnKw, "h", "(", ")", "*/">>,
         <<"pub ", FnKw, "k", "(", ")", "{", "}">> >> }

FnLimitEntries(dir, k) ==
    {File(Path(dir, Names[k], "rs"), t) : t \in FnLimitTexts}
        \cup { UnreadableFile(Path(dir, Names[k], "rs")),
               Dir(Path(dir, Names[k], ""),
                   <<File(Path(dir \o <<Names[k]>>, "mod", "rs"),
                          << <<FnKw, "m", "(", ")", "{", "}">> >>)>>) }

RECURSIVE FnLimitEntrySeqs(_, _)
FnLimitEntrySeqs(dir, n) ==
    IF n = 0 THEN {<<>>}
    ELSE {Append(d, en) : d \in FnLimitEntrySeqs(dir, n - 1), en \in FnLimitEntries(dir, n)}

FnLimitProjects ==
    {[name |-> "guardian", cargo |-> None, entries |-> [ok |-> TRUE, entries |-> <<>>],
      src |-> Some(Dir(Path(<<>>, "src", ""), d)), readmes |-> <<>>, docs |-> None] :
        d \in UNION {FnLimitEntrySeqs(<<"src">>, n) : n \in 0..MaxFnFiles}}

InitFnLimit ==
    /\ NoHosts
    /\ config \in {[CheckConfig_default EXCEPT !.max_functions_per_module = m] :
                      m \in 0..MaxFunctions}
    /\ only = None
    /\ project \in FnLimitProjects
    /\ check_pc = "idle"
    /\ walk = <<>>
    /\ ran = <<>>
    /\ output = <<>>
    /\ previous = None
    /\ results = <<>>
    /\ content = <<>>
    /\ scan = <<>>
    /\ counted = {}

SpecFnLimit == InitFnLimit /\ [][NextChecks]_vars

FunctionCountResults == SelectSeq(results, LAMBDA r : r.check_name = "function-count")

TqCommentLines ==
    { <<TestAttr>>,
      <<"//", "see", FnKw, "parse", "(", ")">>,
      <<FnKw, "t1", "(", ")", "{">>,
      <<"todo!()">>,
      <<"}">>,
      <<FnKw, "prod", "(", ")", "{", "todo!()", "}">> }

AnalyzeFileCommentLine ==
    /\ check_pc = "analyze_file"
    /\ Len(content) < MaxLines
    /\ \E line \in TqCommentLines :
        /\ content' = Append(content, line)
        /\ scan' = analyze_file_line(scan, line, TqPath, Len(content'))
    /\ UNCHANGED <<checkVars, counted, hostVars, pingVars>>

NextTqComments == AnalyzeFile \/ AnalyzeFileCommentLine \/ AnalyzeFileReturn

SpecTqComments == InitTq /\ [][NextTqComments]_vars

\* the text without its line comments, line numbers kept
Uncommented(lines) ==
    [l \in DOMAIN lines |-> IF StartsWith(lines[l], {"//"}) THEN <<>> ELSE lines[l]]

\* C29, first part: in a file the compiler would take, every finding is on a
\* line inside the body of a #[test] function: none is on a line of
\* non-test code after the function's closing brace.
C29_NoFindingOutsideTests ==
    (Scanned("in_test_function") /\ WellFormed(Uncommented(content), TestAttr, {FnKw})) =>
        \A i \in DOMAIN results :
            IsTrivialFinding(results[i]) =>
                \E t \in TrivialInTests(Uncommented(content)) :
                    /\ results[i].line = Some(t.line)
                    /\ results[i].message.pattern = t.pattern

\* C29: in a file the compiler would take, every finding is on a line
\* inside the body of a #[test] function, never on non-test code after the
\* function's closing brace, and names the #[test] function that encloses
\* the line.
C29_FindingsNameEnclosingTest ==
    (Scanned("in_test_function") /\ WellFormed(Uncommented(content), TestAttr, {FnKw})) =>
        \A i \in DOMAIN results :
            IsTrivialFinding(results[i]) =>
                \E t \in TrivialInTests(Uncommented(content)) :
                    /\ results[i].line = Some(t.line)
                    /\ results[i].message.pattern = t.pattern
                    /\ results[i].message.test_name = t.test_name

\* C30: a line that contains the raw-string opening marker is skipped by
\* each scanner: it changes no function count, brace depth, test scope, test
\* name or finding, also when the closing marker is on the same line; and
\* when both markers are on the line the scanner is in the normal state for
\* the next line, whichever marker comes first.
C30_OpeningLineSkipped ==
    [][(Scanning /\ Contains(LineRead, RawOpen)) =>
        \A k \in Scanners :
            /\ Untouched(k)
            /\ Contains(LineRead, RawClose) => ~scan'[k].in_raw_string]_vars

\* after a #[test] line, a line with a function, a trivial pattern and a
\* raw string opened and closed, then a line with a suppression and the
\* closing marker before the opening one: nothing is counted, captured or
\* reported and every scanner is in the normal state
C30_Witness ==
    /\ check_pc = "scan"
    /\ Len(content) = 3
    /\ content[1] = <<TestAttr>>
    /\ content[2] = <<FnKw, "t2", "(", ")", "{", "assert!(true)", RawOpen, "x", RawClose>>
    /\ content[3] = <<"#[allow(", "clippy::unwrap_used", ")", "]", RawClose, RawOpen>>
    /\ \A k \in Scanners : ~scan[k].in_raw_string
    /\ scan.count_functions.count = 0
    /\ scan.count_functions.brace_depth = 0
    /\ scan.analyze_file.in_test_function
    /\ scan.analyze_file.test_name = <<>>
    /\ scan.analyze_file.brace_depth = 0
    /\ scan.analyze_file.results = <<>>
    /\ scan.check_file.results = <<>>

====
